---- MODULE Spec2Model ----
(***************************************************************************)
(* Model of the 2026 House forecast engine, forecast_all_2026_races.py,    *)
(* and of its automated updater, update_forecast.py.                       *)
(*                                                                         *)
(* Number representation.  Python floats are modelled as exact fixed-point *)
(* integers:                                                               *)
(*   - lean (PVI), WAR and generic-ballot values are in tenths of a point; *)
(*   - the model coefficients are in units of 1e-4;                        *)
(*   - margins (predicted and simulated) and noise draws are therefore in  *)
(*     units of 1e-5 point (MarginUnit per point);                         *)
(*   - win percentages are in tenths of a percent (990 is 99.0%).          *)
(* Strings that are parsed are sequences of one-character strings.         *)
(***************************************************************************)
EXTENDS Integers, Sequences, FiniteSets, TLC

(***************************************************************************)
(* Bounds of the model.                                                    *)
(***************************************************************************)
MaxStrLen == 4

MaxDistricts == 2

MaxSims == 2

(***************************************************************************)
(* Generic helpers.                                                        *)
(***************************************************************************)
\* A missing spreadsheet cell (None / NaN): the one cell value that is not a
\* string of characters.  pd.isna is true of it and of nothing else.
NaN == <<"NaN">>

\* A Python optional argument: None, or a value that was passed.
None == <<>>

Some(x) == <<x>>

Abs(x) == IF x < 0 THEN -x ELSE x

RECURSIVE StringsUpTo(_, _)
StringsUpTo(alphabet, n) ==
    IF n = 0 THEN {<<>>}
    ELSE LET shorter == StringsUpTo(alphabet, n - 1)
         IN  shorter \cup {Append(s, c) : s \in {t \in shorter : Len(t) = n - 1},
                                         c \in alphabet}

(***************************************************************************)
(* Python string primitives used by parse_pvi.                             *)
(***************************************************************************)
Whitespace == {" "}

Digits == {"0", "1", "2", "3", "4", "5", "6", "7", "8", "9"}

DigitValue(c) ==
    CASE c = "0" -> 0 [] c = "1" -> 1 [] c = "2" -> 2 [] c = "3" -> 3 [] c = "4" -> 4
      [] c = "5" -> 5 [] c = "6" -> 6 [] c = "7" -> 7 [] c = "8" -> 8 [] c = "9" -> 9

\* str.strip(): drop leading and trailing whitespace.
RECURSIVE LStrip(_)
LStrip(s) == IF s # <<>> /\ Head(s) \in Whitespace THEN LStrip(Tail(s)) ELSE s

RECURSIVE RStrip(_)
RStrip(s) ==
    IF s # <<>> /\ s[Len(s)] \in Whitespace THEN RStrip(SubSeq(s, 1, Len(s) - 1)) ELSE s

Strip(s) == RStrip(LStrip(s))

\* str.strip(c) for one character c: drop every leading and trailing c.
RECURSIVE StripChar(_, _)
StripChar(s, c) ==
    IF s # <<>> /\ Head(s) = c THEN StripChar(Tail(s), c)
    ELSE IF s # <<>> /\ s[Len(s)] = c THEN StripChar(SubSeq(s, 1, Len(s) - 1), c)
    ELSE s

UpperLetters == <<"A", "B", "C", "D", "E", "F", "G", "H", "I", "J", "K", "L", "M", "N", "O", "P", "Q", "R", "S", "T", "U", "V", "W", "X", "Y", "Z">>

LowerLetters == <<"a", "b", "c", "d", "e", "f", "g", "h", "i", "j", "k", "l", "m", "n", "o", "p", "q", "r", "s", "t", "u", "v", "w", "x", "y", "z">>

\* str.upper()
Upper(s) ==
    [i \in 1..Len(s) |->
        IF \E k \in 1..Len(LowerLetters) : LowerLetters[k] = s[i]
        THEN UpperLetters[CHOOSE k \in 1..Len(LowerLetters) : LowerLetters[k] = s[i]]
        ELSE s[i]]

\* str.startswith(prefix)
StartsWith(s, prefix) ==
    Len(s) >= Len(prefix) /\ SubSeq(s, 1, Len(prefix)) = prefix

\* s[2:]
From2(s) == SubSeq(s, 3, Len(s))

RECURSIVE DecimalValue(_)
DecimalValue(s) ==
    IF s = <<>> THEN 0
    ELSE DecimalValue(SubSeq(s, 1, Len(s) - 1)) * 10 + DigitValue(s[Len(s)])

(***************************************************************************)
(* float(s) on the characters of the model's alphabet: surrounding         *)
(* whitespace is ignored, then an optional sign, digits and at most one    *)
(* decimal point, with at least one digit, must make up the whole string;  *)
(* anything else raises ValueError.  The value is returned in tenths (the  *)
(* strings of the model carry at most one digit after the point).          *)
(***************************************************************************)
PyFloat(s) ==
    LET t      == Strip(s)
        signed == t # <<>> /\ Head(t) \in {"+", "-"}
        body   == IF signed THEN Tail(t) ELSE t
        points == {i \in 1..Len(body) : body[i] = "."}
        point  == IF points = {} THEN Len(body) + 1 ELSE CHOOSE i \in points : TRUE
        whole  == SubSeq(body, 1, point - 1)
        frac   == SubSeq(body, point + 1, Len(body))
        valid  == /\ Cardinality(points) <= 1
                  /\ Len(whole) + Len(frac) >= 1
                  /\ \A i \in 1..Len(body) : i # point => body[i] \in Digits
        mag    == DecimalValue(whole) * 10
                      + (CASE Len(frac) = 0 -> 0 [] Len(frac) = 1 -> DigitValue(frac[1]))
    IN  IF ~valid THEN [raised |-> TRUE, value |-> 0]
        ELSE [raised |-> FALSE,
              value  |-> IF signed /\ Head(t) = "-" THEN -mag ELSE mag]

\* int(s): whitespace is ignored, then an optional sign and at least one
\* digit must make up the whole string; anything else raises ValueError.
PyInt(s) ==
    LET t      == Strip(s)
        signed == t # <<>> /\ Head(t) \in {"+", "-"}
        body   == IF signed THEN Tail(t) ELSE t
        valid  == body # <<>> /\ \A i \in 1..Len(body) : body[i] \in Digits
        mag    == DecimalValue(body)
    IN  IF ~valid THEN [raised |-> TRUE, value |-> 0]
        ELSE [raised |-> FALSE,
              value  |-> IF signed /\ Head(t) = "-" THEN -mag ELSE mag]

(***************************************************************************)
(* Python string and regular-expression primitives used by                 *)
(* update_forecast.py.                                                     *)
(***************************************************************************)
\* sub in s
Contains(s, sub) ==
    \E i \in 1..(Len(s) - Len(sub) + 1) : SubSeq(s, i, i + Len(sub) - 1) = sub

\* re.IGNORECASE: letters are compared in lower case.
LowerChar(c) ==
    IF \E i \in 1..Len(UpperLetters) : UpperLetters[i] = c
    THEN LowerLetters[CHOOSE i \in 1..Len(UpperLetters) : UpperLetters[i] = c]
    ELSE c

Lower(s) == [i \in 1..Len(s) |-> LowerChar(s[i])]

\* [0-9.]
NumberChars == Digits \cup {"."}

\* The position after the longest run of characters of set that starts at i.
RECURSIVE RunEnd(_, _, _)
RunEnd(s, i, set) == IF i <= Len(s) /\ s[i] \in set THEN RunEnd(s, i + 1, set) ELSE i

NoMatch == [found |-> FALSE]

\* re.search(r'(D|R)\+?([0-9.]+)', text): the leftmost match.
SearchParty(text) ==
    LET number(i) == IF i + 1 <= Len(text) /\ text[i + 1] = "+" THEN i + 2 ELSE i + 1
        starts    == {i \in 1..Len(text) :
                         /\ text[i] \in {"D", "R"}
                         /\ RunEnd(text, number(i), NumberChars) > number(i)}
    IN  IF starts = {} THEN NoMatch
        ELSE LET i == CHOOSE m \in starts : \A n \in starts : m <= n
             IN  [found |-> TRUE, party |-> text[i],
                  value |-> SubSeq(text, number(i),
                                   RunEnd(text, number(i), NumberChars) - 1)]

\* The patterns of the text search, in order: the word, whether an s may
\* follow it, and whether the plus sign may be left out.
Pattern(word, plural, bare) == [word |-> word, plural |-> plural, bare |-> bare]

patterns ==
    <<Pattern(<<"D", "e", "m", "o", "c", "r", "a", "t">>, TRUE, TRUE), Pattern(<<"R", "e", "p", "u", "b", "l", "i", "c", "a", "n">>, TRUE, TRUE),
      Pattern(<<"D", "e", "m">>, FALSE, FALSE), Pattern(<<"G", "O", "P">>, FALSE, FALSE),
      Pattern(<<"D">>, FALSE, FALSE), Pattern(<<"R">>, FALSE, FALSE)>>

\* Where the number starts if pattern matches text at position i, or 0.
NumberStart(pattern, text, i) ==
    LET after_word == i + Len(pattern.word)
        after_s    == IF /\ pattern.plural
                         /\ after_word <= Len(text)
                         /\ LowerChar(text[after_word]) = "s"
                      THEN after_word + 1 ELSE after_word
        at_plus    == RunEnd(text, after_s, Whitespace)
        has_plus   == at_plus <= Len(text) /\ text[at_plus] = "+"
        at_number  == RunEnd(text, IF has_plus THEN at_plus + 1 ELSE at_plus, Whitespace)
    IN  IF /\ after_word - 1 <= Len(text)
           /\ Lower(SubSeq(text, i, after_word - 1)) = Lower(pattern.word)
           /\ has_plus \/ pattern.bare
           /\ RunEnd(text, at_number, NumberChars) > at_number
        THEN at_number ELSE 0

\* re.search(pattern, text_content, re.IGNORECASE): the leftmost match.
SearchPattern(pattern, text) ==
    LET starts == {i \in 1..Len(text) : NumberStart(pattern, text, i) > 0}
    IN  IF starts = {} THEN NoMatch
        ELSE LET i == CHOOSE m \in starts : \A n \in starts : m <= n
                 k == NumberStart(pattern, text, i)
             IN  [found |-> TRUE,
                  value |-> SubSeq(text, k, RunEnd(text, k, NumberChars) - 1)]

DigitChar(d) == CHOOSE c \in Digits : DigitValue(c) = d

RECURSIVE NaturalStr(_)
NaturalStr(n) ==
    IF n < 10 THEN <<DigitChar(n)>> ELSE Append(NaturalStr(n \div 10), DigitChar(n % 10))

\* str(x) of a float, x in tenths: the sign, the whole part, the point and
\* one decimal.
FloatStr(x) ==
    (IF x < 0 THEN <<"-">> ELSE <<>>)
        \o NaturalStr(Abs(x) \div 10) \o <<".">> \o <<DigitChar(Abs(x) % 10)>>

(***************************************************************************)
(* scrape_generic_ballot.  A value is in tenths of a point.  The result is *)
(* the value returned and the message printed on the way.                  *)
(***************************************************************************)
Outcome(kind, margin) == [kind |-> kind, margin |-> margin]

\* The first of a sequence of outcomes that is a value or an exception.
FirstOutcome(outcomes) ==
    LET hits == {k \in 1..Len(outcomes) : outcomes[k].kind # "none"}
    IN  IF hits = {} THEN Outcome("none", 0)
        ELSE outcomes[CHOOSE k \in hits : \A j \in hits : k <= j]

\* margin = value if the party is D else -value, value being float(group).
SignedOutcome(is_dem, value) ==
    IF value.raised THEN Outcome("raised", 0)
    ELSE Outcome("found", IF is_dem THEN value.value ELSE -value.value)

\* Lines 70-81: two consecutive percentages.
PairOutcome(dem_val, rep_val) ==
    IF /\ ~dem_val.raised
       /\ ~rep_val.raised
       /\ 350 < dem_val.value /\ dem_val.value < 650
       /\ 350 < rep_val.value /\ rep_val.value < 650
    THEN Outcome("found", dem_val.value - rep_val.value)
    ELSE Outcome("none", 0)

\* Lines 61-65.
PartyOutcome(match) == SignedOutcome(match.party = "D", PyFloat(match.value))

\* Lines 56-81: cell i of a row of the average.
CellOutcome(cells, i) ==
    LET text == Strip(cells[i])
    IN  IF SearchParty(text).found THEN PartyOutcome(SearchParty(text))
        ELSE IF i < Len(cells)
        THEN PairOutcome(PyFloat(text), PyFloat(Strip(cells[i + 1])))
        ELSE Outcome("none", 0)

\* 'RCP Average' in poll_name or 'Average' in poll_name
NamesAverage(poll_name) ==
    \/ Contains(poll_name, <<"R", "C", "P", " ", "A", "v", "e", "r", "a", "g", "e">>)
    \/ Contains(poll_name, <<"A", "v", "e", "r", "a", "g", "e">>)

\* Lines 51-54: a row is looked at if it has five cells or more and its first
\* cell names the average.
RowOutcome(cells) ==
    IF Len(cells) >= 5 /\ NamesAverage(Strip(cells[1]))
    THEN FirstOutcome([i \in 1..Len(cells) |-> CellOutcome(cells, i)])
    ELSE Outcome("none", 0)

\* Lines 47-81, method 1: the first row that gives a value or raises.
TableOutcome(rows) == FirstOutcome([r \in 1..Len(rows) |-> RowOutcome(rows[r])])

RECURSIVE Flatten(_)
Flatten(seqs) == IF seqs = <<>> THEN <<>> ELSE Head(seqs) \o Flatten(Tail(seqs))

\* soup.get_text()
TextContent(page) == Flatten([r \in 1..Len(page.rows) |-> Flatten(page.rows[r])]) \o page.other

\* 'D' in pattern or 'Dem' in pattern
IsDem(pattern) ==
    Contains(pattern.word, <<"D">>) \/ Contains(pattern.word, <<"D", "e", "m">>)

\* Lines 96-103.
PatternOutcome(pattern, text_content) ==
    IF SearchPattern(pattern, text_content).found
    THEN SignedOutcome(IsDem(pattern), PyFloat(SearchPattern(pattern, text_content).value))
    ELSE Outcome("none", 0)

\* Lines 85-103, method 2: the first pattern that is found in the text.
TextOutcome(text_content) ==
    FirstOutcome([p \in 1..Len(patterns) |-> PatternOutcome(patterns[p], text_content)])

Scraped(value, message) == [value |-> value, message |-> message]

\* What is returned and printed, given what the two methods come to.
ScrapedFrom(table, text) ==
    CASE table.kind = "found"  -> Scraped(table.margin, "Found RCP Average")
      [] table.kind = "raised" -> Scraped(0, "Unexpected error")
      [] text.kind = "found"   -> Scraped(text.margin, "Found in text")
      [] text.kind = "raised"  -> Scraped(0, "Unexpected error")
      [] OTHER -> Scraped(0, "Warning: Could not parse Generic Ballot")

scrape_generic_ballot(response) ==
    IF response.kind = "RequestException"
    THEN Scraped(0, "Error fetching data")
    ELSE ScrapedFrom(TableOutcome(response.rows), TextOutcome(TextContent(response)))

EVEN == <<"E", "V", "E", "N">>

(***************************************************************************)
(* parse_pvi.  The result records whether the call raised ValueError and,  *)
(* when it did not, the value returned (in tenths).                        *)
(***************************************************************************)
\* Variant: the sign of an R lean is dropped.
parse_pvi_unsigned(pvi_str) ==
    IF pvi_str = NaN \/ pvi_str = EVEN
    THEN [raised |-> FALSE, value |-> 0]
    ELSE LET s == Strip(pvi_str)
         IN  IF StartsWith(s, <<"D", "+">>) \/ StartsWith(s, <<"R", "+">>)
             THEN PyFloat(From2(s))
             ELSE [raised |-> FALSE, value |-> 0]

parse_pvi(pvi_str) ==
    IF pvi_str = NaN \/ pvi_str = EVEN
    THEN [raised |-> FALSE, value |-> 0]
    ELSE LET s == Strip(pvi_str)
         IN  IF StartsWith(s, <<"D", "+">>)
             THEN PyFloat(From2(s))
             ELSE IF StartsWith(s, <<"R", "+">>)
             THEN LET f == PyFloat(From2(s))
                  IN  [raised |-> f.raised, value |-> -f.value]
             ELSE [raised |-> FALSE, value |-> 0]

(***************************************************************************)
(* get_race_rating(margin, d_win_pct).  d_win_pct is None or Some(p) with  *)
(* p a percentage in tenths; margin is in 1e-5 points.                     *)
(***************************************************************************)
MarginUnit == 10 * 10000

\* Variant: the exact tie is tested with >= and so never reaches "Toss-up".
get_race_rating_tie_as_tilt(margin, d_win_pct) ==
    IF d_win_pct # None
    THEN LET p == d_win_pct[1]
         IN  IF p >= 990 THEN "Safe D"
             ELSE IF p >= 900 THEN "Likely D"
             ELSE IF p >= 750 THEN "Lean D"
             ELSE IF p >= 500 THEN "Tilt D"
             ELSE IF p >= 250 THEN "Tilt R"
             ELSE IF p >= 100 THEN "Lean R"
             ELSE IF p >= 10 THEN "Likely R"
             ELSE "Safe R"
    ELSE "Toss-up"

get_race_rating(margin, d_win_pct) ==
    IF d_win_pct # None
    THEN LET p == d_win_pct[1]
         IN  IF p >= 990 THEN "Safe D"
             ELSE IF p >= 900 THEN "Likely D"
             ELSE IF p >= 750 THEN "Lean D"
             ELSE IF p > 500 THEN "Tilt D"
             ELSE IF p = 500 THEN "Toss-up"
             ELSE IF p >= 250 THEN "Tilt R"
             ELSE IF p >= 100 THEN "Lean R"
             ELSE IF p >= 10 THEN "Likely R"
             ELSE "Safe R"
    ELSE LET margin_abs == Abs(margin)
             winner     == IF margin > 0 THEN "D" ELSE "R"
         IN  IF margin_abs > 15 * MarginUnit THEN "Safe " \o winner
             ELSE IF margin_abs > 10 * MarginUnit THEN "Likely " \o winner
             ELSE IF margin_abs > 5 * MarginUnit THEN "Lean " \o winner
             ELSE "Toss-up " \o winner

(***************************************************************************)
(* Fixed model data.                                                       *)
(***************************************************************************)
MODEL_COEFFICIENTS ==
    [intercept |-> -2425, pvi |-> 10320, war |-> -5130, generic_ballot |-> 1876]

\* The entries of the retirement table for the districts of the model.
RETIREMENTS_2026 ==
    [d \in {"NY-21", "TX-33"} |->
        IF d = "NY-21" THEN <<"Elise Stefanik", "R", "Retiring">>
                       ELSE <<"Marc Veasey", "D", "Retiring">>]

\* round(num / den, 0) as Python rounds: to nearest, exact halves to even.
RoundHalfEven(num, den) ==
    LET q == num \div den
        r == num % den
    IN  IF 2 * r < den THEN q
        ELSE IF 2 * r > den THEN q + 1
        ELSE IF q % 2 = 0 THEN q ELSE q + 1

\* round(x, 2) of a margin: a multiple of 0.01, still in 1e-5 units.
Round2(x) == RoundHalfEven(x, 1000) * 1000

(***************************************************************************)
(* d_win_pct = (d_wins / n_simulations) * 100 and 100 - d_win_pct are      *)
(* doubles: each operation rounds its exact result to 53 significant bits, *)
(* to nearest, ties to even.  FloatErrors gives, for 0 < d < n, the errors *)
(* of the two doubles against the exact values 100 d / n and               *)
(* 100 (n - d) / n, as integers with the sign of the error (numerators     *)
(* over n * 2^(52 + k)); only the low bits of the significands are needed, *)
(* and they are carried modulo 2^18.                                       *)
(***************************************************************************)
RECURSIVE PowMod2(_, _, _)
PowMod2(d, s, m) == IF s = 0 THEN d % m ELSE (2 * PowMod2(d, s - 1, m)) % m

\* The carry of rounding away the low `width' bits, ties to even.
RoundCarry(low, width, next_bit) ==
    LET half == 2 ^ (width - 1)
    IN  IF low > half THEN 1 ELSE IF low < half THEN 0 ELSE next_bit

\* The k with 2^-k <= d / n < 2^(1 - k).
RECURSIVE QuotientExponent(_, _, _)
QuotientExponent(d, n, k) ==
    IF d * 2 ^ k >= n THEN k ELSE QuotientExponent(d, n, k + 1)

\* The e with 2^e <= 100 - d_win_pct < 2^(e + 1), searched downwards from e.
RECURSIVE DifferenceExponent(_, _, _, _)
DifferenceExponent(d, n, err_p, e) ==
    LET a == IF e >= 0 THEN 100 * (n - d) ELSE 100 * (n - d) * 2 ^ (0 - e)
        b == IF e >= 0 THEN n * 2 ^ e ELSE n
    IN  IF a > b \/ (a = b /\ err_p <= 0)
        THEN e
        ELSE DifferenceExponent(d, n, err_p, e - 1)

FloatErrors(d, n) ==
    LET window   == 2 ^ 18
        k        == QuotientExponent(d, n, 0)
        \* d / n = m1 * 2^-(52 + k), m1 the rounded quotient
        scaled   == PowMod2(d, 52 + k, n * window)
        r        == scaled % n
        floor1   == scaled \div n
        c1       == IF 2 * r > n THEN 1 ELSE IF 2 * r < n THEN 0 ELSE floor1 % 2
        rho1     == c1 * n - r
        m1       == (floor1 + c1) % window
        \* (d / n) * 100: 100 * m1 has 59 or 60 bits, 6 or 7 are rounded away
        t        == IF 100 * d * 2 ^ k > 128 * n
                        \/ (100 * d * 2 ^ k = 128 * n /\ rho1 >= 0)
                    THEN 7 ELSE 6
        product  == (100 * m1) % window
        low2     == product % 2 ^ t
        c2       == RoundCarry(low2, t, (product \div 2 ^ t) % 2)
        err_p    == 100 * rho1 + n * (c2 * 2 ^ t - low2)
        \* 100 - d_win_pct: exact unless its exponent is above d_win_pct's
        u        == k + DifferenceExponent(d, n, err_p, 6)
        p_low    == (product - low2 + c2 * 2 ^ t) % window
        z_low    == (window - p_low) % window
        low3     == z_low % 2 ^ u
        c3       == RoundCarry(low3, u, (z_low \div 2 ^ u) % 2)
    IN  [p |-> err_p,
         q |-> IF u <= t THEN 0 - err_p ELSE n * (c3 * 2 ^ u - low3) - err_p]

\* round(x, 1), in tenths of a percent, of the double x whose exact value
\* would be 100 num / den and whose error has the sign of err: x is rounded
\* to the nearest tenth, and when 100 num / den is midway between two
\* tenths the error decides (the nearer-even tenth when x is exact).
RoundPct1(num, den, err) ==
    LET q == (num * 1000) \div den
        r == (num * 1000) % den
    IN  IF 2 * r < den THEN q
        ELSE IF 2 * r > den THEN q + 1
        ELSE IF err > 0 THEN q + 1
        ELSE IF err < 0 THEN q
        ELSE IF q % 2 = 0 THEN q ELSE q + 1

\* Lines 201, 208, 209: the two percentages simulate_race returns.  With no
\* D win or no R win the quotient is 0.0 or 1.0 and every step is exact.
WinPercentages(dw, n) ==
    LET err == IF 0 < dw /\ dw < n THEN FloatErrors(dw, n) ELSE [p |-> 0, q |-> 0]
    IN  [d_win_pct |-> RoundPct1(dw, n, err.p),
         r_win_pct |-> RoundPct1(n - dw, n, err.q)]

(***************************************************************************)
(* random.gauss(0, rmse): a draw can be any float.  The model draws from a *)
(* few values either side of zero, small and large against the margins it  *)
(* forecasts, and the one value that cancels the margin it is added to.    *)
(* random.gauss is the bound method of the one generator the random module *)
(* creates at import: the value it returns is a function of that           *)
(* generator's state (seeded from the operating system, so unknown), and   *)
(* every call advances the state.  The variable rng is that state.         *)
(***************************************************************************)
NoiseDraws(margin) == {-30 * MarginUnit, 100, 30 * MarginUnit, -margin}

(***************************************************************************)
(* Inputs of a run.                                                        *)
(***************************************************************************)
Record(dist, party, lean) == [Dist |-> dist, Party |-> party, PVI |-> lean]

TableSafe ==
    << Record("GA-07", "D", <<"D", "+", "2", "0">>),
       Record("NY-21", "R", <<"R", "+", "2", "0">>),
       Record("TX-33", "D", <<" ", "D", "+", "2", "1">>),
       Record("GA-06", "R", <<"R", "+", "1", "2">>) >>

TableClose ==
    << Record("GA-06", "R", EVEN),
       Record("GA-07", "D", <<"R", "+", "1">>),
       Record("GA-06", "D", NaN),
       Record("NY-21", "R", <<"x", "7">>) >>

TableBad ==
    << Record("GA-07", "R", <<"D", "+", "7", " ">>),
       Record("GA-06", "R", <<"R", "+">>),
       Record("TX-33", "D", <<"D", "+", "x">>),
       Record("NY-21", "R", EVEN) >>

BaseTables == {TableSafe, TableClose, TableBad}

\* A safe seat followed by a district whose predicted margin is exactly zero
\* in an environment of -9.5: -0.2425 + 1.0320 * 4.0 - 0.5130 * 4.1
\* + 0.1876 * (-9.5) = 0.0 (in double arithmetic as well).
TableTie ==
    << Record("TX-33", "D", <<"D", "+", "2", "1">>),
       Record("OH-09", "D", <<"D", "+", "4">>) >>

TieEnvTexts == {<<"-", "9", ".", "5">>}

Min(a, b) == IF a < b THEN a ELSE b

InputTables ==
    {<<>>} \cup {SubSeq(t, 1, Min(k, Len(t))) : t \in BaseTables, k \in 1..MaxDistricts}

\* The WAR file: rows of Geography, Year, Sortable (in tenths).  GA-06 has a
\* row for an earlier year only, TX-33 has no row, NY-21 is an open seat
\* with a value.
WarRow(geography, year, sortable) ==
    [Geography |-> geography, Year |-> year, Sortable |-> sortable]

WarFile ==
    << WarRow("GA-07", 2022, -8),
       WarRow("GA-06", 2022, 17),
       WarRow("GA-07", 2024, 25),
       WarRow("NY-21", 2024, -30),
       WarRow("OH-09", 2024, 41) >>

\* Variant: the rows of every year are taken.
WarDictAllYears(war_df) ==
    LET last(g) == CHOOSE i \in 1..Len(war_df) :
                       /\ war_df[i].Geography = g
                       /\ \A k \in 1..Len(war_df) : war_df[k].Geography = g => k <= i
    IN  [g \in {war_df[i].Geography : i \in 1..Len(war_df)} |-> war_df[last(g)].Sortable]

\* dict(zip(war_2024['Geography'], war_2024['Sortable'])) over the rows of
\* 2024: a later row replaces an earlier one with the same key.
WarDict2024(war_df) ==
    LET rows2024 == {i \in 1..Len(war_df) : war_df[i].Year = 2024}
        last(g)  == CHOOSE i \in rows2024 :
                        /\ war_df[i].Geography = g
                        /\ \A k \in rows2024 : war_df[k].Geography = g => k <= i
    IN  [g \in {war_df[i].Geography : i \in rows2024} |-> war_df[last(g)].Sortable]

\* war_dict before load_data has built it.
NoDict == <<>>

(***************************************************************************)
(* The command-line surface of main(): sys.argv, and the lines typed at    *)
(* the two parameter prompts of the interactive form.  The environment is  *)
(* given as 0, 1.3 or (for TableTie) -9.5, the trial count as 1 ..         *)
(* MaxSims; either may be a text that is not a number, may be left empty   *)
(* at a prompt, and the trial count may be left out of sys.argv.           *)
(***************************************************************************)
Command(argv, typed) == [argv |-> argv, typed |-> typed]

\* The surface once main() has read it.
NoCommand == Command(<<>>, <<>>)

EnvTexts == {<<"0">>, <<"1", ".", "3">>}

NonNumericTexts == {<<"a", "b", "c">>}

SimTexts == {<<c>> : c \in {d \in Digits : DigitValue(d) \in 1..MaxSims}}

PositionalCommands(envs) ==
    LET args == <<"forecast_all_2026_races.py", "District2025PVIs.xlsx",
                  "WinAboveReplacementData.csv">>
    IN  {Command(Append(args, gb), <<>>) : gb \in envs \cup NonNumericTexts}
            \cup {Command(args \o <<gb, n>>, <<>>) :
                      gb \in envs \cup NonNumericTexts,
                      n \in SimTexts \cup NonNumericTexts}

InteractiveCommands(envs) ==
    {Command(<<"forecast_all_2026_races.py">>, <<gb, n>>) :
         gb \in envs \cup NonNumericTexts \cup {<<>>},
         n \in SimTexts \cup NonNumericTexts \cup {<<>>}}

Commands(envs) == PositionalCommands(envs) \cup InteractiveCommands(envs)

\* n_simulations = 1000, the default of main()
DefaultSimulations == 1000

(***************************************************************************)
(* State.                                                                  *)
(***************************************************************************)
VARIABLES
    pc,              \* where main() is
    raised,          \* the exception that ended the run, or None
    pvi_df,          \* the district table read by load_data
    war_dict,        \* the WAR dictionary built by load_data
    generic_ballot,  \* national environment, tenths
    n_simulations,   \* trial count
    idx,             \* run_forecast: 1-based position in pvi_df
    local,           \* run_forecast: the loop body's locals for row idx
    d_wins,          \* simulate_race
    r_wins,          \* simulate_race
    margins,         \* simulate_race
    forecasts,       \* run_forecast: rows appended so far, in input order
    forecast_df,     \* run_forecast's return value (sorted)
    house,           \* simulate_all_races: its locals and return value
    call,            \* a direct call of a helper function: arguments and result
    previous,        \* the rows of an earlier run on the same inputs, or None
    rng,             \* the generator of the random module, shared by the whole
                     \* process: how many values have been taken from it
    coefficients,    \* the module-level dictionary MODEL_COEFFICIENTS
    competitive,     \* print_summary: the most-competitive view, or None
    command          \* sys.argv and the lines typed at the parameter prompts

vars == <<pc, raised, pvi_df, war_dict, generic_ballot, n_simulations, idx, local,
          d_wins, r_wins, margins, forecasts, forecast_df, house, call, previous,
          rng, coefficients, competitive, command>>

inputs == <<pvi_df, war_dict, generic_ballot, n_simulations>>

raceVars == <<d_wins, r_wins, margins>>

NoLocal == [district |-> "", pvi |-> 0, war |-> 0, is_open_seat |-> FALSE,
            retirement_reason |-> "", pred_margin |-> 0, pred_winner |-> ""]

\* simulate_all_races: the two result lists, the current trial's counters, the
\* position j in predicted_margins, the last simulated margin, and the returned
\* dictionary.  Two history fields are added for the properties: draws counts
\* the noise samples taken so far, and quiet tells whether every sample of the
\* current trial was smaller in magnitude than the margin it was added to.
\* printed is what print_summary prints of the returned dictionary.
HouseStart ==
    [d_seat_counts |-> <<>>, r_seat_counts |-> <<>>, d_seats |-> 0, r_seats |-> 0,
     j |-> 1, simulated_margin |-> 0, draws |-> 0, quiet |-> TRUE, result |-> None,
     printed |-> None]

NoCall == [fn |-> "none"]

\* Lean strings handed to parse_pvi directly: every string over LeanAlphabet up
\* to MaxStrLen characters, a missing cell, and EVEN with and without padding.
LeanAlphabet == {"D", "R", "+", "-", " ", "1", "7", "x"}

LeanCells ==
    StringsUpTo(LeanAlphabet, MaxStrLen)
        \cup {NaN, EVEN, <<" ">> \o EVEN, EVEN \o <<" ">>, <<" ">> \o EVEN \o <<" ">>,
              <<"R", "+", "1", "2">>, <<" ", "D", "+", "7", " ">>,
              <<" ", "R", "+", "1", "2", " ">>}

\* Arguments handed to get_race_rating directly: margins at and around the
\* fallback thresholds, and no win probability or any from 0.0 to 100.0.
RatingMargins ==
    {s * (k * MarginUnit + e) : s \in {-1, 1}, k \in {0, 5, 10, 15}, e \in {-1, 0, 1}}

RatingPcts == {None} \cup {Some(p) : p \in 0..1000}

\* Trial counts handed to simulate_race directly: small ones, the default of
\* 1000, and counts in between.  The loop of a direct call is not unrolled:
\* d_wins is the number of its trials that came out for D, and the noise can
\* make that any number from 0 to n_simulations.
RaceTrialCounts == {1, 2, 3, 7, 8, 40, 80, 400, 1000}

\* Arguments handed to forecast_district directly, in tenths.
ForecastLeans == {-210, -10, 0, 70, 200}

ForecastWars == {-30, 0, 25}

ForecastEnvs == {-50, 0, 13, 26}

\* Tables handed to print_summary directly: rows of district_id and
\* d_win_pct, fewer than, as many as and more than the 25 rows of the
\* most-competitive view, with win probabilities spread over 0.0 .. 100.0
\* (repeated values and values at equal distance from 50 among them), and
\* tables of one repeated value.
SummaryRow(i, pct) == [district_id |-> "XX-" \o ToString(i), d_win_pct |-> pct]

SummaryLengths == {1, 3, 24, 25, 26, 27, 30}

SummaryTables ==
    {[i \in 1..len |-> SummaryRow(i, (seed * i * i + 7 * i) % 1001)] :
         seed \in 1..12, len \in SummaryLengths}
        \cup {[i \in 1..len |-> SummaryRow(i, 500 + 100 * ((i % 3) - 1))] :
                  len \in SummaryLengths}

(***************************************************************************)
(* get_file_path and find_file.  The file system is the set of the paths   *)
(* that exist; the operator's terminal is the sequence of the lines still  *)
(* to be read by input(), which raises EOFError when there is none left.   *)
(* The default file is searched for in the current directory, the script's *)
(* directory, the home directory and its Downloads and Documents.          *)
(***************************************************************************)
Quote == "\""

Apostrophe == "'"

Slash == <<"/">>

DefaultFilename == <<"P">>

SearchDirs == << <<".">>, <<"s">>, <<"h">>, <<"h", "/", "d">>, <<"h", "/", "c">> >>

\* os.path.join(dir_path, filename)
Join(dir_path, filename) == dir_path \o Slash \o filename

\* What may exist: the default file where the script is or in Downloads, and
\* two files of the operator's, one of them with a blank in front of its name.
FileSystems ==
    {{}, {<<"a">>}, {<<"b">>, <<" ", "a">>},
     {Join(SearchDirs[2], DefaultFilename)},
     {Join(SearchDirs[2], DefaultFilename), <<"b">>},
     {Join(SearchDirs[4], DefaultFilename), Join(SearchDirs[2], DefaultFilename), <<"a">>}}

\* What the operator may type on one line: nothing, a path bare, padded or in
\* quotation marks, and the answers n, N and y.
TypedLines ==
    {<<>>, <<"a">>, <<" ", Quote, "a", Quote>>, <<Apostrophe, "b", Apostrophe, " ">>,
     <<Quote, " ", "a", Quote>>, <<"n">>, <<" ", "N", " ">>, <<"y">>, <<"n", "o">>}

Terminals == StringsUpTo(TypedLines, 3)

\* Variant: every path is taken to exist.
os_path_exists_always(path, files) == TRUE

os_path_exists(path, files) == path \in files

find_file(filename, files) ==
    LET found == {i \in 1..Len(SearchDirs) :
                     os_path_exists(Join(SearchDirs[i], filename), files)}
    IN  IF found = {} THEN None
        ELSE Some(Join(SearchDirs[CHOOSE i \in found : \A j \in found : i <= j], filename))

(***************************************************************************)
(* update_forecast.py.  What requests.get and raise_for_status give back   *)
(* is either a RequestException or a page; of a page the model keeps the   *)
(* rows of its tables, each a sequence of cell texts, in document order,   *)
(* and the text outside the tables.  soup.get_text() is the text of the    *)
(* cells followed by that text.  Percentages and margins on the pages have *)
(* at most one decimal, and pairs of percentages are multiples of 0.5 (so  *)
(* that their difference is exact in a double).                            *)
(***************************************************************************)
Page(rows, other) == [kind |-> "page", rows |-> rows, other |-> other]

RequestException(name) == [kind |-> "RequestException", name |-> name]

Responses ==
    {RequestException("Timeout"), RequestException("ConnectionError"),
     RequestException("HTTPError"),
     Page(<<>>, <<>>),
     Page(<< <<<<"R", "C", "P", " ", "A", "v", "e", "r", "a", "g", "e">>, <<"1", "/", "1">>, <<"-", "-">>, <<"4", "5", ".", "5">>, <<"4", "1", ".", "0">>, <<"D", "+", "4", ".", "5">>>> >>, <<>>),
     Page(<< <<<<"A", "v", "e", "r", "a", "g", "e">>, <<"x">>, <<"y">>, <<"z">>, <<"R", "+", "2">>>> >>, <<>>),
     Page(<< <<<<"A", "v", "e", "r", "a", "g", "e">>, <<"D", "+", ".">>, <<"a">>, <<"b">>, <<"c">>>> >>, <<>>),
     Page(<< <<<<"R", "C", "P", " ", "A", "v", "e", "r", "a", "g", "e">>, <<"D", "+", "3">>>> >>, <<>>),
     Page(<< <<<<"P", "o", "l", "l", " ", "A">>, <<"4", "4", ".", "0">>, <<"4", "2", ".", "5">>, <<"x">>, <<"y">>>> >>, <<>>),
     Page(<< <<<<"A", "v", "e", "r", "a", "g", "e">>, <<"1", "0", ".", "0">>, <<"2", "0", ".", "0">>, <<"a">>, <<"b">>>> >>, <<>>),
     Page(<< <<<<"P", "o", "l", "l", " ", "A">>, <<"4", "4", ".", "0">>, <<"4", "2", ".", "5">>, <<"x">>, <<"y">>>>,
             <<<<"R", "C", "P", " ", "A", "v", "e", "r", "a", "g", "e">>, <<"1", "/", "1">>, <<"-", "-">>, <<"4", "5", ".", "5">>, <<"4", "1", ".", "0">>, <<"D", "+", "4", ".", "5">>>> >>, <<>>),
     Page(<< <<<<"A", "v", "e", "r", "a", "g", "e">>, <<"1", "0", ".", "0">>, <<"2", "0", ".", "0">>, <<"a">>, <<"b">>>> >>, <<"r", "e", "p", "u", "b", "l", "i", "c", "a", "n", " ", "2">>),
     Page(<<>>, <<"D", "e", "m", "o", "c", "r", "a", "t", "s", " ", "+", "3", ".", "5", " ", "n", "o", "w">>),
     Page(<<>>, <<"r", "e", "p", "u", "b", "l", "i", "c", "a", "n", " ", "2">>),
     Page(<<>>, <<"G", "O", "P", " ", "+", " ", "1", ".", "5">>),
     Page(<<>>, <<"n", "o", " ", "n", "u", "m", "b", "e", "r", "s">>),
     Page(<<>>, <<"D", "e", "m", " ", "+", "1", ".", "2", ".", "3">>),
     Page(<<>>, <<"r", " ", "+", "7">>)}

\* The return codes of the forecast process: success, an uncaught exception,
\* a usage error, and death by a signal.
ReturnCodes == {0, 1, 2, -15}

UpdateCalls ==
    {[fn |-> "update_forecast", response |-> r, generic_ballot |-> None, log |-> <<>>,
      cmd |-> None, returncode |-> None, exit_code |-> None] : r \in Responses}

HelperCalls ==
    {[fn |-> "parse_pvi", pvi_str |-> s, ret |-> None] : s \in LeanCells}
        \cup {[fn |-> "get_race_rating", margin |-> m, d_win_pct |-> p, ret |-> None] :
                  m \in RatingMargins, p \in RatingPcts}
        \cup UNION {{[fn |-> "simulate_race", n_simulations |-> n, d_wins |-> d,
                        ret |-> None] : d \in 0..n} : n \in RaceTrialCounts}
        \cup {[fn |-> "forecast_district", pvi |-> l, war |-> w, generic_ballot |-> e,
                ret |-> None] : l \in ForecastLeans, w \in ForecastWars, e \in ForecastEnvs}
        \cup {[fn |-> "print_summary", forecast_df |-> t] : t \in SummaryTables}
        \cup {[fn |-> "get_file_path", default_filename |-> DefaultFilename,
                files |-> fs, typed |-> t, at |-> "find_file", prompts |-> 0,
                errors |-> 0, ret |-> None] : fs \in FileSystems, t \in Terminals}

\* A run of main() from its start ...
InitRun ==
    /\ pc = "main"
    /\ \/ pvi_df \in InputTables /\ command \in Commands(EnvTexts)
       \/ pvi_df = TableTie /\ command \in Commands(TieEnvTexts)
    /\ generic_ballot = 0
    /\ n_simulations = DefaultSimulations
    /\ war_dict = NoDict
    /\ call = NoCall

\* ... or one direct call of a helper function, outside a run.
InitCall ==
    /\ pc = "call"
    /\ pvi_df = <<>>
    /\ war_dict = NoDict
    /\ command = NoCommand
    /\ generic_ballot = 0
    /\ n_simulations = 1
    /\ call \in HelperCalls

\* ... or a run of update_forecast.py.
InitUpdate ==
    /\ pc = "update_main"
    /\ pvi_df = <<>>
    /\ war_dict = NoDict
    /\ command = NoCommand
    /\ generic_ballot = 0
    /\ n_simulations = 1
    /\ call \in UpdateCalls

Init ==
    /\ InitRun \/ InitCall \/ InitUpdate
    /\ raised = None
    /\ previous = None
    /\ idx = 1
    /\ local = NoLocal
    /\ d_wins = 0
    /\ r_wins = 0
    /\ margins = <<>>
    /\ forecasts = <<>>
    /\ forecast_df = <<>>
    /\ house = HouseStart
    /\ rng = 0
    /\ coefficients = MODEL_COEFFICIENTS
    /\ competitive = None

\* An exception that nothing catches ends the run.
Raise(exc) ==
    /\ pc' = "raised"
    /\ raised' = Some(exc)

(***************************************************************************)
(* main(), lines 478-503: the environment and the trial count are taken    *)
(* from sys.argv when it has at least four entries, and from the prompts   *)
(* otherwise.  float() and int() of an argument are not guarded; at the    *)
(* prompts a ValueError is caught and the default is used, as it is for an *)
(* empty line.  The two calls of get_file_path of the interactive form are *)
(* not followed in a run (get_file_path is modelled as called directly).   *)
(* The surface is not read again and is cleared.                           *)
(***************************************************************************)
PromptValue(line, parsed, default) ==
    IF Strip(line) = <<>> \/ parsed.raised THEN default ELSE parsed.value

MainArguments ==
    /\ pc = "main"
    /\ LET argv == command.argv
       IN  IF Len(argv) >= 4
           THEN LET gb == PyFloat(argv[4])
                    n  == IF Len(argv) >= 5 THEN PyInt(argv[5])
                                            ELSE [raised |-> FALSE, value |-> n_simulations]
                IN  IF gb.raised
                    THEN Raise("ValueError") /\ UNCHANGED <<generic_ballot, n_simulations>>
                    ELSE IF n.raised
                    THEN /\ Raise("ValueError")
                         /\ generic_ballot' = gb.value
                         /\ UNCHANGED n_simulations
                    ELSE /\ generic_ballot' = gb.value
                         /\ n_simulations' = n.value
                         /\ pc' = "load_data"
                         /\ UNCHANGED raised
           ELSE LET gb_input  == Strip(command.typed[1])
                    sim_input == Strip(command.typed[2])
                IN  /\ generic_ballot' = PromptValue(gb_input, PyFloat(gb_input), 0)
                    /\ n_simulations' =
                           PromptValue(sim_input, PyInt(sim_input), DefaultSimulations)
                    /\ pc' = "load_data"
                    /\ UNCHANGED raised
    /\ command' = NoCommand
    /\ UNCHANGED <<coefficients, competitive, pvi_df, war_dict, idx, local, raceVars,
                   forecasts, forecast_df, house, call, previous, rng>>

(***************************************************************************)
(* load_data: the lean column is parsed for every row; a ValueError from   *)
(* parse_pvi propagates and ends the run.                                  *)
(***************************************************************************)
\* Runs of more than MaxSims trials are not followed beyond main().
LoadData ==
    /\ pc = "load_data"
    /\ n_simulations <= MaxSims
    /\ IF \E i \in 1..Len(pvi_df) : parse_pvi(pvi_df[i].PVI).raised
       THEN Raise("ValueError") /\ UNCHANGED war_dict
       ELSE /\ war_dict' = WarDict2024(WarFile)
            /\ pc' = "run_forecast"
            /\ UNCHANGED raised
    /\ UNCHANGED <<command, competitive, coefficients, pvi_df, generic_ballot, n_simulations, idx, local, raceVars, forecasts, forecast_df, house, call, previous, rng>>

(***************************************************************************)
(* run_forecast, loop body up to the call of simulate_race.                *)
(***************************************************************************)
\* forecast_district reads the module-level dictionary at every call; gb is
\* its parameter generic_ballot.
\* Variant: the national environment is weighted twice.
forecast_district_env_twice(pvi, war, gb) ==
    coefficients.intercept * 10
        + coefficients.pvi * pvi
        + coefficients.war * war
        + 2 * coefficients.generic_ballot * gb

forecast_district(pvi, war, gb) ==
    coefficients.intercept * 10
        + coefficients.pvi * pvi
        + coefficients.war * war
        + coefficients.generic_ballot * gb

WarOf(dict, district) == IF district \in DOMAIN dict THEN dict[district] ELSE 0

\* Variant: a margin of exactly zero goes to D.
PredictedWinnerTieToD(pred_margin) == IF pred_margin >= 0 THEN "D" ELSE "R"

PredictedWinner(pred_margin) == IF pred_margin > 0 THEN "D" ELSE "R"

ForecastDistrict ==
    /\ pc = "run_forecast"
    /\ idx <= Len(pvi_df)
    /\ LET row          == pvi_df[idx]
           district     == row.Dist
           parsed       == parse_pvi(row.PVI)
           is_open_seat == district \in DOMAIN RETIREMENTS_2026
           war          == IF is_open_seat THEN 0 ELSE WarOf(war_dict, district)
           pred_margin  == forecast_district(parsed.value, war, generic_ballot)
       IN  IF parsed.raised
           THEN Raise("ValueError") /\ UNCHANGED <<local, raceVars>>
           ELSE /\ local' = [district          |-> district,
                             pvi               |-> parsed.value,
                             war               |-> war,
                             is_open_seat      |-> is_open_seat,
                             retirement_reason |->
                                 IF is_open_seat THEN RETIREMENTS_2026[district][3]
                                                 ELSE "",
                             pred_margin       |-> pred_margin,
                             pred_winner       |-> PredictedWinner(pred_margin)]
                /\ d_wins' = 0
                /\ r_wins' = 0
                /\ margins' = <<>>
                /\ pc' = "simulate_race"
                /\ UNCHANGED raised
    /\ UNCHANGED <<command, competitive, coefficients, inputs, idx, forecasts, forecast_df, house, call, previous, rng>>

(***************************************************************************)
(* simulate_race: one trial of the loop, and the return value.             *)
(***************************************************************************)
\* Variant: an exact tie is counted for D.
IsDWinOrTie(simulated_margin) == simulated_margin >= 0

\* Variant: the sign convention is reversed.
IsDWinFlipped(simulated_margin) == simulated_margin < 0

IsDWin(simulated_margin) == simulated_margin > 0

SimulateRaceTrial ==
    /\ pc = "simulate_race"
    /\ Len(margins) < n_simulations
    /\ \E error \in NoiseDraws(local.pred_margin) :
          LET simulated_margin == local.pred_margin + error
          IN  /\ margins' = Append(margins, simulated_margin)
              /\ IF IsDWin(simulated_margin)
                 THEN d_wins' = d_wins + 1 /\ UNCHANGED r_wins
                 ELSE r_wins' = r_wins + 1 /\ UNCHANGED d_wins
    /\ rng' = rng + 1
    /\ UNCHANGED <<command, competitive, coefficients, pc, raised, inputs, idx, local, forecasts, forecast_df, house, call, previous>>

RECURSIVE SeqSum(_)
SeqSum(seq) == IF seq = <<>> THEN 0 ELSE Head(seq) + SeqSum(Tail(seq))

\* The standard deviation of the simulated margins (margin_std) is left out of
\* the result: no property below reads it.
SimResults(dw, rw, ms, n) ==
    [d_wins     |-> dw,
     r_wins     |-> rw,
     d_win_pct  |-> WinPercentages(dw, n).d_win_pct,
     r_win_pct  |-> WinPercentages(dw, n).r_win_pct,
     avg_margin |-> RoundHalfEven(SeqSum(ms), Len(ms) * 1000) * 1000]

(***************************************************************************)
(* run_forecast, loop body after simulate_race returns: rating, flip flag, *)
(* and the row appended to forecasts.  The locals of the loop body and of  *)
(* simulate_race are dead from here on and are reset.                      *)
(***************************************************************************)
\* Variant: the flag marks the seats that are held.
IsFlipInverted(pred_winner, party) == pred_winner = party

\* is_flip = (pred_winner != party)
IsFlip(pred_winner, party) == pred_winner # party

\* The row, given the value of its predicted_margin column.  The columns
\* incumbent_2025, sim_avg_margin and sim_margin_std are left out.
RowWithMargin(row, loc, gb, sim_results, predicted_margin) ==
    [district_id       |-> loc.district,
     incumbent_party   |-> row.Party,
     pvi_string        |-> row.PVI,
     pvi_numeric       |-> loc.pvi,
     is_open_seat      |-> loc.is_open_seat,
     retirement_reason |-> loc.retirement_reason,
     war               |-> loc.war,
     generic_ballot    |-> gb,
     predicted_margin  |-> predicted_margin,
     predicted_winner  |-> loc.pred_winner,
     d_win_pct         |-> sim_results.d_win_pct,
     r_win_pct         |-> sim_results.r_win_pct,
     race_rating       |-> get_race_rating(loc.pred_margin, Some(sim_results.d_win_pct)),
     potential_flip    |-> IsFlip(loc.pred_winner, row.Party)]

\* Variant: the simulated mean is written to the predicted_margin column.
ForecastRowSimulatedMargin(row, loc, gb, sim_results) ==
    RowWithMargin(row, loc, gb, sim_results, sim_results.avg_margin)

ForecastRow(row, loc, gb, sim_results) ==
    RowWithMargin(row, loc, gb, sim_results, Round2(loc.pred_margin))

FinishDistrict ==
    /\ pc = "simulate_race"
    /\ Len(margins) = n_simulations
    /\ LET sim_results == SimResults(d_wins, r_wins, margins, n_simulations)
       IN  forecasts' = Append(forecasts,
                               ForecastRow(pvi_df[idx], local, generic_ballot, sim_results))
    /\ idx' = idx + 1
    /\ local' = NoLocal
    /\ d_wins' = 0
    /\ r_wins' = 0
    /\ margins' = <<>>
    /\ pc' = "run_forecast"
    /\ UNCHANGED <<command, competitive, coefficients, raised, inputs, forecast_df, house, call, previous, rng>>

(***************************************************************************)
(* run_forecast, after the loop: the table is sorted by |predicted_margin| *)
(* (the order of rows with equal keys is not fixed by the sort).  A table  *)
(* built from no rows has no predicted_margin column: KeyError.            *)
(***************************************************************************)
\* Variant: the rows are sorted by the signed margin.
SortValuesSigned(table) ==
    {sorted \in {[i \in 1..Len(table) |-> table[perm[i]]] :
                     perm \in Permutations(1..Len(table))} :
        \A i \in 1..(Len(table) - 1) :
            sorted[i].predicted_margin <= sorted[i + 1].predicted_margin}

IsSortedByAbsMargin(table) ==
    \A i \in 1..(Len(table) - 1) :
        Abs(table[i].predicted_margin) <= Abs(table[i + 1].predicted_margin)

SortValues(table) ==
    {sorted \in {[i \in 1..Len(table) |-> table[perm[i]]] :
                     perm \in Permutations(1..Len(table))} :
        IsSortedByAbsMargin(sorted)}

SortForecasts ==
    /\ pc = "run_forecast"
    /\ idx > Len(pvi_df)
    /\ IF forecasts = <<>>
       THEN Raise("KeyError") /\ UNCHANGED forecast_df
       ELSE /\ forecast_df' \in SortValues(forecasts)
            /\ pc' = "simulate_all_races"
            /\ UNCHANGED raised
    /\ UNCHANGED <<command, competitive, coefficients, inputs, idx, local, raceVars, forecasts, house, call, previous, rng>>

(***************************************************************************)
(* simulate_all_races.  predicted_margins is the predicted_margin column   *)
(* of the sorted table.  HouseDraw is one pass of the inner loop,          *)
(* HouseTrialEnd the end of one pass of the outer loop (and the reset of   *)
(* the counters at the start of the next), HouseReturn the return.         *)
(***************************************************************************)
PredictedMargins(table) == [i \in 1..Len(table) |-> table[i].predicted_margin]

HouseDraw ==
    /\ pc = "simulate_all_races"
    /\ Len(house.d_seat_counts) < n_simulations
    /\ house.j <= Len(forecast_df)
    /\ LET margin == PredictedMargins(forecast_df)[house.j]
       IN  \E error \in NoiseDraws(margin) :
              LET simulated_margin == margin + error
                  d_win            == IsDWin(simulated_margin)
              IN  house' = [house EXCEPT
                               !.d_seats   = IF d_win THEN @ + 1 ELSE @,
                               !.r_seats   = IF d_win THEN @ ELSE @ + 1,
                               !.simulated_margin = simulated_margin,
                               !.draws     = @ + 1,
                               !.quiet     = @ /\ Abs(error) < Abs(margin),
                               !.j         = @ + 1]
    /\ rng' = rng + 1
    /\ UNCHANGED <<command, competitive, coefficients, pc, raised, inputs, idx, local, raceVars, forecasts, forecast_df, call, previous>>

HouseTrialEnd ==
    /\ pc = "simulate_all_races"
    /\ Len(house.d_seat_counts) < n_simulations
    /\ house.j > Len(forecast_df)
    /\ house' = [house EXCEPT
                    !.d_seat_counts = Append(@, house.d_seats),
                    !.r_seat_counts = Append(@, house.r_seats),
                    !.d_seats       = 0,
                    !.r_seats       = 0,
                    !.quiet         = TRUE,
                    !.j             = 1]
    /\ UNCHANGED <<command, competitive, coefficients, pc, raised, inputs, idx, local, raceVars, forecasts, forecast_df, call, previous, rng>>

\* A float quotient num / den kept exact.
Fraction(num, den) == [num |-> num, den |-> den]

SeqMin(seq) == CHOOSE x \in {seq[i] : i \in 1..Len(seq)} :
                   \A i \in 1..Len(seq) : x <= seq[i]

SeqMax(seq) == CHOOSE x \in {seq[i] : i \in 1..Len(seq)} :
                   \A i \in 1..Len(seq) : x >= seq[i]

\* The values of seq in ascending order.
Sorted(seq) ==
    LET rank(i) == 1 + Cardinality({j \in 1..Len(seq) :
                                       \/ seq[j] < seq[i]
                                       \/ seq[j] = seq[i] /\ j < i})
    IN  [r \in 1..Len(seq) |-> seq[CHOOSE i \in 1..Len(seq) : rank(i) = r]]

\* Variant: of an even number of values, the upper middle one is taken.
SeqMedianUpper(seq) ==
    LET sorted == Sorted(seq)
        upper  == (Len(seq) \div 2) + 1
    IN  Fraction(sorted[upper] + sorted[upper], 2)

\* np.median: the middle value, or the mean of the two middle values.
SeqMedian(seq) ==
    LET sorted == Sorted(seq)
        lower  == (Len(seq) + 1) \div 2
        upper  == (Len(seq) \div 2) + 1
    IN  Fraction(sorted[lower] + sorted[upper], 2)

\* np.mean
SeqMean(seq) == Fraction(SeqSum(seq), Len(seq))

\* sum(1 for x in d_seat_counts if x >= 218)
MajorityTrials(d_seat_counts) ==
    Cardinality({i \in 1..Len(d_seat_counts) : d_seat_counts[i] >= 218})

HouseResult(d_seat_counts, r_seat_counts, n) ==
    [d_seats        |-> d_seat_counts,
     r_seats        |-> r_seat_counts,
     d_mean         |-> SeqMean(d_seat_counts),
     r_mean         |-> SeqMean(r_seat_counts),
     d_median       |-> SeqMedian(d_seat_counts),
     d_min          |-> SeqMin(d_seat_counts),
     d_max          |-> SeqMax(d_seat_counts),
     d_majority_pct |-> Fraction(MajorityTrials(d_seat_counts) * 100, n)]

HouseReturn ==
    /\ pc = "simulate_all_races"
    /\ Len(house.d_seat_counts) = n_simulations
    /\ house' = [house EXCEPT
                    !.result = Some(HouseResult(house.d_seat_counts,
                                                house.r_seat_counts, n_simulations))]
    /\ pc' = "print_summary"
    /\ UNCHANGED <<command, competitive, coefficients, raised, inputs, idx, local, raceVars, forecasts, forecast_df, call, previous, rng>>

\* The state of a run, which a direct call of a helper leaves alone.
runVars == <<inputs, idx, local, raceVars, forecasts, forecast_df, house>>

(***************************************************************************)
(* print_summary, the most-competitive view.  The column competitiveness   *)
(* is added to the caller's table; nsmallest takes the rows with the       *)
(* smallest values in ascending order, rows with equal values in table     *)
(* order (keep='first').  Of the columns of the view, district_id and      *)
(* d_win_pct are kept, with the position of the row in the table.  The     *)
(* counts and the other tables print_summary prints are not modelled.      *)
(*                                                                         *)
(* The column holds doubles.  d_win_pct is the double nearest to k / 10    *)
(* and the subtraction of 50 rounds once more when k / 10 <= 18, so two    *)
(* rows at the same decimal distance on either side of 50 (31.1 and 68.9)  *)
(* can hold doubles that differ in the last bits, and nsmallest orders     *)
(* them by those.  FloatDistanceError is the double minus the decimal      *)
(* distance |k - 500| / 10, in units of 2^-56 / 10.                        *)
(***************************************************************************)
TopK == 25

\* The binary exponent e of k / 10: 2^e <= k / 10 < 2^(e + 1), from -4 up.
RECURSIVE TenthsExponent(_, _)
TenthsExponent(k, e) == IF k * 16 < 10 * 2 ^ (e + 5) THEN e ELSE TenthsExponent(k, e + 1)

FloatDistanceError(k) ==
    IF k = 0 \/ k = 1000 THEN 0
    ELSE LET e      == TenthsExponent(k, -4)
             s      == 52 - e
             window == 2 ^ 12
             low    == PowMod2(k, s, 10 * window)
             r      == low % 10
             c      == IF r > 5 THEN 1 ELSE IF r < 5 THEN 0 ELSE (low \div 10) % 2
             err_x  == (10 * c - r) * 2 ^ (e + 4)
             m      == ((low \div 10) + c) % window
             u      == 5 - e
             z      == (window - m) % window
             low3   == z % 2 ^ u
             c3     == RoundCarry(low3, u, (z \div 2 ^ u) % 2)
         IN  IF k >= 500 THEN err_x
             ELSE IF k > 180 THEN 0 - err_x
             ELSE (c3 * 2 ^ u - low3) * 10 * 2 ^ (56 - s) - err_x

\* The weight of one tenth of a percent in a key: more than any error.
KeyScale == 2 ^ 20

\* Variant: the distance from 50 keeps its sign.
CompetitivenessSigned(d_win_pct) ==
    (d_win_pct - 500) * KeyScale + FloatDistanceError(d_win_pct)

\* abs(forecast_df['d_win_pct'] - 50) as a key that orders as the doubles
\* do: the decimal distance in tenths of a percent, then the error.
Competitiveness(d_win_pct) ==
    Abs(d_win_pct - 500) * KeyScale + FloatDistanceError(d_win_pct)

WithCompetitiveness(table) ==
    [i \in 1..Len(table) |->
        [c \in DOMAIN table[i] \cup {"competitiveness"} |->
            IF c = "competitiveness" THEN Competitiveness(table[i].d_win_pct)
                                     ELSE table[i][c]]]

\* The positions of the n smallest keys, by ascending key, then position.
NSmallest(n, keys) ==
    LET rank(i) == 1 + Cardinality({j \in 1..Len(keys) :
                                       \/ keys[j] < keys[i]
                                       \/ keys[j] = keys[i] /\ j < i})
    IN  [r \in 1..Min(n, Len(keys)) |-> CHOOSE i \in 1..Len(keys) : rank(i) = r]

CompetitiveView(table) ==
    LET keyed == WithCompetitiveness(table)
        order == NSmallest(TopK, [i \in 1..Len(keyed) |-> keyed[i].competitiveness])
    IN  [r \in 1..Len(order) |->
            [position    |-> order[r],
             district_id |-> keyed[order[r]].district_id,
             d_win_pct   |-> keyed[order[r]].d_win_pct]]

(***************************************************************************)
(* print_summary, lines 405-422: the two majority probabilities, printed   *)
(* with one decimal (in tenths of a percent), and the seven percentile     *)
(* lines.  d_majority_pct is the double (count / n_simulations) * 100 and  *)
(* the GOP figure the double 100 - d_majority_pct.  np.percentile          *)
(* interpolates linearly between the two values of the sorted list around  *)
(* position (n - 1) * pct / 100; each line prints that value and 435 minus *)
(* it, both rounded to a whole number, halves to even.  (With the trial    *)
(* and district counts of the model an interpolated value ends in .5 only  *)
(* for the weights 0.25, 0.5 and 0.75, which are exact in a double.)       *)
(***************************************************************************)
MajorityPrinted(count, n) ==
    LET err == IF 0 < count /\ count < n THEN FloatErrors(count, n) ELSE [p |-> 0, q |-> 0]
    IN  [dem |-> RoundPct1(count, n, err.p), gop |-> RoundPct1(n - count, n, err.q)]

Percentiles == <<5, 10, 25, 50, 75, 90, 95>>

\* np.percentile(d_seats, pct), as a quotient over 100.
Percentile(d_seats, pct) ==
    LET sorted == Sorted(d_seats)
        n      == Len(sorted)
        lower  == ((n - 1) * pct) \div 100
        weight == ((n - 1) * pct) % 100
        a      == sorted[lower + 1]
        b      == sorted[IF lower + 2 <= n THEN lower + 2 ELSE n]
    IN  Fraction(100 * a + weight * (b - a), 100)

PercentileLine(d_seats, pct) ==
    LET seats == Percentile(d_seats, pct)
    IN  [pct |-> pct,
         d   |-> RoundHalfEven(seats.num, seats.den),
         r   |-> RoundHalfEven(435 * seats.den - seats.num, seats.den)]

ChamberPrinted(house_sim_results) ==
    LET d_seats == house_sim_results.d_seats
    IN  [simulations |-> Len(d_seats),
         majority    |-> MajorityPrinted(MajorityTrials(d_seats), Len(d_seats)),
         percentiles |-> [k \in 1..Len(Percentiles) |->
                             PercentileLine(d_seats, Percentiles[k])]]

PrintSummary ==
    /\ pc = "print_summary"
    /\ forecast_df' = WithCompetitiveness(forecast_df)
    /\ house' = [house EXCEPT !.printed = Some(ChamberPrinted(house.result[1]))]
    /\ competitive' = Some(CompetitiveView(forecast_df))
    /\ pc' = "done"
    /\ UNCHANGED <<command, coefficients, raised, inputs, idx, local, raceVars, forecasts,
                   call, previous, rng>>

CallPrintSummary ==
    /\ pc = "call"
    /\ call.fn = "print_summary"
    /\ call' = [call EXCEPT !.forecast_df = WithCompetitiveness(@)]
    /\ competitive' = Some(CompetitiveView(call.forecast_df))
    /\ pc' = "returned"
    /\ UNCHANGED <<command, coefficients, raised, runVars, previous, rng>>

(***************************************************************************)
(* Direct calls of the helper functions.  A call of parse_pvi that raises  *)
(* ends with the exception; otherwise the value returned is recorded.      *)
(***************************************************************************)
CallParsePvi ==
    /\ pc = "call"
    /\ call.fn = "parse_pvi"
    /\ LET result == parse_pvi(call.pvi_str)
       IN  IF result.raised
           THEN Raise("ValueError") /\ UNCHANGED call
           ELSE /\ call' = [call EXCEPT !.ret = Some(result.value)]
                /\ pc' = "returned"
                /\ UNCHANGED raised
    /\ UNCHANGED <<command, competitive, coefficients, runVars, previous, rng>>

CallGetRaceRating ==
    /\ pc = "call"
    /\ call.fn = "get_race_rating"
    /\ call' = [call EXCEPT !.ret = Some(get_race_rating(call.margin, call.d_win_pct))]
    /\ pc' = "returned"
    /\ UNCHANGED <<command, competitive, coefficients, raised, runVars, previous, rng>>

CallForecastDistrict ==
    /\ pc = "call"
    /\ call.fn = "forecast_district"
    /\ call' = [call EXCEPT
                   !.ret = Some(forecast_district(call.pvi, call.war, call.generic_ballot))]
    /\ pc' = "returned"
    /\ UNCHANGED <<command, competitive, coefficients, raised, runVars, previous, rng>>

\* simulate_race, lines 201-212, after a loop that counted call.d_wins trials
\* for D out of call.n_simulations.
CallSimulateRace ==
    /\ pc = "call"
    /\ call.fn = "simulate_race"
    /\ call' = [call EXCEPT
                   !.ret = Some(WinPercentages(call.d_wins, call.n_simulations))]
    /\ pc' = "returned"
    /\ UNCHANGED <<command, competitive, coefficients, raised, runVars, previous, rng>>

(***************************************************************************)
(* get_file_path, called directly.  at is the position in the function:    *)
(* "find_file" before the search, "loop" at the head of the while loop.    *)
(* prompts counts the calls of input(), errors the "File not found"        *)
(* messages printed.                                                       *)
(***************************************************************************)
\* Lines 281-286: the search and, if a file was found, the offer to use it.
GetFilePathAuto ==
    /\ pc = "call"
    /\ call.fn = "get_file_path"
    /\ call.at = "find_file"
    /\ LET auto_path == find_file(call.default_filename, call.files)
       IN  IF auto_path = None
           THEN /\ call' = [call EXCEPT !.at = "loop"]
                /\ UNCHANGED <<pc, raised>>
           ELSE IF call.typed = <<>>
           THEN /\ call' = [call EXCEPT !.prompts = @ + 1]
                /\ Raise("EOFError")
           ELSE LET use_auto == Upper(Strip(Head(call.typed)))
                IN  IF use_auto # <<"N">>
                    THEN /\ call' = [call EXCEPT !.prompts = @ + 1, !.typed = Tail(@),
                                                 !.ret = auto_path]
                         /\ pc' = "returned"
                         /\ UNCHANGED raised
                    ELSE /\ call' = [call EXCEPT !.prompts = @ + 1, !.typed = Tail(@),
                                                 !.at = "loop"]
                         /\ UNCHANGED <<pc, raised>>
    /\ UNCHANGED <<command, competitive, coefficients, runVars, previous, rng>>

\* Lines 288-292: one turn of the loop.
GetFilePathPrompt ==
    /\ pc = "call"
    /\ call.fn = "get_file_path"
    /\ call.at = "loop"
    /\ IF call.typed = <<>>
       THEN /\ call' = [call EXCEPT !.prompts = @ + 1]
            /\ Raise("EOFError")
       ELSE LET path == StripChar(StripChar(Strip(Head(call.typed)), Quote), Apostrophe)
            IN  IF os_path_exists(path, call.files)
                THEN /\ call' = [call EXCEPT !.prompts = @ + 1, !.typed = Tail(@),
                                             !.ret = Some(path)]
                     /\ pc' = "returned"
                     /\ UNCHANGED raised
                ELSE /\ call' = [call EXCEPT !.prompts = @ + 1, !.typed = Tail(@),
                                             !.errors = @ + 1]
                     /\ UNCHANGED <<pc, raised>>
    /\ UNCHANGED <<command, competitive, coefficients, runVars, previous, rng>>

(***************************************************************************)
(* update_forecast.py, main() and run_forecast.  The forecast is another   *)
(* process, started with the scraped value and 1000 trials; its return     *)
(* code is an input here, and it is not 0 if the forecast cannot read its  *)
(* arguments.  log is what the updater has printed, exit_code the status   *)
(* its process ends with.                                                  *)
(***************************************************************************)
UpdaterScrape ==
    /\ pc = "update_main"
    /\ LET scraped == scrape_generic_ballot(call.response)
       IN  call' = [call EXCEPT !.generic_ballot = Some(scraped.value),
                                !.log = <<scraped.message>>]
    /\ pc' = "update_run_forecast"
    /\ UNCHANGED <<command, competitive, coefficients, raised, runVars, previous, rng>>

\* Lines 140-152.
UpdaterRunForecast ==
    /\ pc = "update_run_forecast"
    /\ LET cmd == <<"python", "forecast_all_2026_races.py", "District2025PVIs.xlsx",
                   "WinAboveReplacementData.csv", FloatStr(call.generic_ballot[1]),
                   <<"1", "0", "0", "0">>>>
       IN  \E returncode \in ReturnCodes :
               /\ PyFloat(cmd[5]).raised \/ PyInt(cmd[6]).raised => returncode # 0
               /\ call' = [call EXCEPT !.cmd = Some(cmd), !.returncode = Some(returncode)]
    /\ pc' = "update_result"
    /\ UNCHANGED <<command, competitive, coefficients, raised, runVars, previous, rng>>

\* Variant: the updater fails whatever the forecast returned.
ExitStatusAlwaysFails(returncode) == 1

\* Lines 154-160: sys.exit(1) unless the forecast returned 0.
ExitStatus(returncode) == IF returncode = 0 THEN 0 ELSE 1

\* Lines 154-160 and 177-179.
UpdaterResult ==
    /\ pc = "update_result"
    /\ LET status == ExitStatus(call.returncode[1])
       IN  call' = [call EXCEPT
                       !.exit_code = Some(status),
                       !.log = IF status = 0
                               THEN @ \o <<"Forecast updated successfully!", "Update complete!">>
                               ELSE Append(@, "Error running forecast script!")]
    /\ pc' = "exited"
    /\ UNCHANGED <<command, competitive, coefficients, raised, runVars, previous, rng>>

(***************************************************************************)
(* main(): load_data, run_forecast, simulate_all_races.                    *)
(***************************************************************************)
Next ==
    \/ CallParsePvi
    \/ CallGetRaceRating
    \/ CallSimulateRace
    \/ CallForecastDistrict
    \/ CallPrintSummary
    \/ GetFilePathAuto
    \/ GetFilePathPrompt
    \/ UpdaterScrape
    \/ UpdaterRunForecast
    \/ UpdaterResult
    \/ MainArguments
    \/ LoadData
    \/ ForecastDistrict
    \/ SimulateRaceTrial
    \/ FinishDistrict
    \/ SortForecasts
    \/ HouseDraw
    \/ HouseTrialEnd
    \/ HouseReturn
    \/ PrintSummary

Spec == Init /\ [][Next]_vars

(***************************************************************************)
(* Two runs of the forecast on the same inputs, one after the other: when  *)
(* run_forecast has returned, the rows it built (in input order) are kept  *)
(* aside and main() is started again on the same files and arguments, in a *)
(* new process (with a generator of its own).                              *)
(***************************************************************************)
RunAgain ==
    /\ pc = "simulate_all_races"
    /\ previous = None
    /\ previous' = Some(forecasts)
    /\ pc' = "load_data"
    /\ idx' = 1
    /\ forecasts' = <<>>
    /\ forecast_df' = <<>>
    /\ rng' = 0
    /\ UNCHANGED <<command, competitive, coefficients, raised, inputs, local, raceVars, house, call>>

NextTwoRuns ==
    \/ MainArguments
    \/ LoadData
    \/ ForecastDistrict
    \/ SimulateRaceTrial
    \/ FinishDistrict
    \/ SortForecasts
    \/ RunAgain

InitTwoRuns == Init /\ pc = "main"

SpecTwoRuns == InitTwoRuns /\ [][NextTwoRuns]_vars

(***************************************************************************)
(*                              PROPERTIES                                 *)
(***************************************************************************)
NineCategories ==
    {"Safe D", "Likely D", "Lean D", "Tilt D", "Toss-up",
     "Tilt R", "Lean R", "Likely R", "Safe R"}

Returned(fn) == pc = "returned" /\ call.fn = fn

\* The rating table of the primary mode, by ranges of the win probability.
PrimaryRating(p) ==
    CASE p >= 990            -> "Safe D"
      [] p >= 900 /\ p < 990 -> "Likely D"
      [] p >= 750 /\ p < 900 -> "Lean D"
      [] p > 500 /\ p < 750  -> "Tilt D"
      [] p = 500             -> "Toss-up"
      [] p >= 250 /\ p < 500 -> "Tilt R"
      [] p >= 100 /\ p < 250 -> "Lean R"
      [] p >= 10 /\ p < 100  -> "Likely R"
      [] p < 10              -> "Safe R"

\* C1: with a win probability p in 0..100, get_race_rating returns the category
\* of the nine that the threshold table gives for p (whatever the margin), and
\* the race_rating of every row built by run_forecast is the category of the
\* table for the row's d_win_pct.
C1_PrimaryRatingTable ==
    /\ (Returned("get_race_rating") /\ call.d_win_pct # None) =>
           /\ call.ret = Some(PrimaryRating(call.d_win_pct[1]))
           /\ call.ret[1] \in NineCategories
    /\ \A i \in 1..Len(forecasts) :
           /\ forecasts[i].race_rating = PrimaryRating(forecasts[i].d_win_pct)
           /\ forecasts[i].race_rating \in NineCategories
    /\ \A i \in 1..Len(forecast_df) : forecast_df[i].race_rating \in NineCategories

C1_Witness ==
    /\ Returned("get_race_rating")
    /\ call.d_win_pct = Some(500)
    /\ call.ret = Some("Toss-up")

\* The rating table of the fallback mode as the specification states it.
FallbackRating(margin) ==
    LET w == IF margin > 0 THEN "D" ELSE "R"
    IN  CASE Abs(margin) > 15 * MarginUnit -> "Safe " \o w
          [] Abs(margin) > 10 * MarginUnit /\ Abs(margin) <= 15 * MarginUnit -> "Likely " \o w
          [] Abs(margin) > 5 * MarginUnit /\ Abs(margin) <= 10 * MarginUnit  -> "Lean " \o w
          [] Abs(margin) <= 5 * MarginUnit -> "Toss-up"

\* C2: without a win probability, get_race_rating returns one of the nine
\* categories: Safe / Likely / Lean with the winner's letter for |margin| above
\* 15 / 10 / 5, and "Toss-up" with no party suffix for |margin| <= 5.
C2_FallbackRatingTable ==
    (Returned("get_race_rating") /\ call.d_win_pct = None) =>
        /\ call.ret = Some(FallbackRating(call.margin))
        /\ call.ret[1] \in NineCategories

\* C3: parse_pvi never raises: a call returns, and returns 0.0 for every string
\* that is not EVEN and not D+ or R+ followed by a number; no lean string ends
\* load_data or the run with a ValueError.
IsNumeral(s) == s # <<>> /\ \A i \in 1..Len(s) : s[i] \in Digits

HasLeanForm(cell, letter) ==
    /\ cell # NaN
    /\ Len(Strip(cell)) > 2
    /\ Strip(cell)[1] = letter
    /\ Strip(cell)[2] = "+"
    /\ IsNumeral(SubSeq(Strip(cell), 3, Len(Strip(cell))))

Recognized(cell) ==
    cell = NaN \/ Strip(cell) = EVEN \/ HasLeanForm(cell, "D") \/ HasLeanForm(cell, "R")

C3_ParsePviNeverRaises ==
    /\ raised # Some("ValueError")
    /\ (call.fn = "parse_pvi" /\ pc # "call" /\ ~Recognized(call.pvi_str)) =>
           call.ret = Some(0)

\* C4: parse_pvi maps a missing value and EVEN to 0.0, D+<n> to +n and R+<n>
\* to -n for a number n, with or without surrounding whitespace.
RECURSIVE NumeralValue(_, _)
NumeralValue(s, acc) ==
    IF s = <<>> THEN acc
    ELSE NumeralValue(Tail(s),
                      10 * acc + (CHOOSE v \in 0..9 : ToString(v) = Head(s)))

LeanValue(cell) == NumeralValue(SubSeq(Strip(cell), 3, Len(Strip(cell))), 0) * 10

C4_ParsePviValues ==
    (call.fn = "parse_pvi" /\ pc # "call") =>
        /\ (call.pvi_str = NaN \/ Strip(call.pvi_str) = EVEN) => call.ret = Some(0)
        /\ HasLeanForm(call.pvi_str, "D") => call.ret = Some(LeanValue(call.pvi_str))
        /\ HasLeanForm(call.pvi_str, "R") => call.ret = Some(-LeanValue(call.pvi_str))

C4_Witness ==
    /\ Returned("parse_pvi")
    /\ call.pvi_str = <<" ", "R", "+", "1", "2", " ">>
    /\ call.ret = Some(-120)

\* C5: every input record yields exactly one output row: once a run has built
\* its table or has ended, the table has as many rows as the input and the same
\* district ids, each as often as in the input.
Occurrences(seq, x) == Cardinality({i \in 1..Len(seq) : seq[i] = x})

InputIds == [i \in 1..Len(pvi_df) |-> pvi_df[i].Dist]

OutputIds == [i \in 1..Len(forecast_df) |-> forecast_df[i].district_id]

TableBuiltOrRunEnded ==
    /\ call = NoCall
    /\ pc \in {"simulate_all_races", "print_summary", "raised"}

C5_OneRowPerRecord ==
    TableBuiltOrRunEnded =>
        /\ Len(forecast_df) = Len(pvi_df)
        /\ \A i \in 1..Len(pvi_df) :
               Occurrences(OutputIds, InputIds[i]) = Occurrences(InputIds, InputIds[i])

\* C6 as stated: two runs on identical inputs give every district the same
\* predicted margin and the same race rating, whatever the random draws.
SecondRunDone == previous # None /\ pc = "simulate_all_races"

C6_SameMarginsAndRatings ==
    SecondRunDone =>
        \A i \in 1..Len(forecasts) :
            /\ forecasts[i].predicted_margin = previous[1][i].predicted_margin
            /\ forecasts[i].race_rating = previous[1][i].race_rating

\* C6 amended: two runs on identical inputs give every district the same
\* predicted margin and predicted winner, and the same race rating whenever the
\* district's simulated D win probability came out the same in both runs.
C6_SameMargins ==
    SecondRunDone =>
        /\ Len(forecasts) = Len(previous[1])
        /\ \A i \in 1..Len(forecasts) :
               /\ forecasts[i].district_id = previous[1][i].district_id
               /\ forecasts[i].predicted_margin = previous[1][i].predicted_margin
               /\ forecasts[i].predicted_winner = previous[1][i].predicted_winner
               /\ forecasts[i].d_win_pct = previous[1][i].d_win_pct =>
                      forecasts[i].race_rating = previous[1][i].race_rating

C6_Witness ==
    /\ SecondRunDone
    /\ \E i \in 1..Len(forecasts) :
           /\ forecasts[i].d_win_pct # previous[1][i].d_win_pct
           /\ forecasts[i].race_rating # previous[1][i].race_rating
           /\ forecasts[i].predicted_margin = previous[1][i].predicted_margin

\* C7: the majority probability is the share of trials in which the D seat
\* count reaches half the simulated chamber's size, rounded up.
MajorityThreshold(chamber_size) == (chamber_size + 1) \div 2

C7_MajorityOfSimulatedChamber ==
    house.result # None =>
        house.result[1].d_majority_pct =
            Fraction(100 * Cardinality({k \in 1..Len(house.d_seat_counts) :
                                           house.d_seat_counts[k] >=
                                               MajorityThreshold(Len(forecast_df))}),
                     n_simulations)

\* C8: in a chamber trial whose noise samples are all smaller in magnitude than
\* the margins they are added to, the D seats are the districts with a positive
\* predicted margin and the R seats those with a non-positive one.
PositiveMargins(upto) ==
    Cardinality({i \in 1..upto : forecast_df[i].predicted_margin > 0})

C8_QuietTrialFollowsMargins ==
    (pc = "simulate_all_races" /\ house.quiet) =>
        /\ house.d_seats = PositiveMargins(house.j - 1)
        /\ house.r_seats = (house.j - 1) - PositiveMargins(house.j - 1)

C8_Witness ==
    /\ pc = "simulate_all_races"
    /\ house.j > Len(forecast_df)
    /\ house.quiet
    /\ house.d_seats >= 1
    /\ house.r_seats >= 1

\* C9: simulate_all_races runs exactly n_simulations chamber trials, each
\* drawing one noise sample per district; the two returned lists have that
\* length, the two counts of every trial add up to the number of districts, and
\* each draw adds a D seat exactly when the simulated margin is > 0, else an R
\* seat.
HouseCounts ==
    /\ Len(house.d_seat_counts) = Len(house.r_seat_counts)
    /\ Len(house.d_seat_counts) <= n_simulations
    /\ \A k \in 1..Len(house.d_seat_counts) :
           house.d_seat_counts[k] + house.r_seat_counts[k] = Len(forecast_df)
    /\ house.draws = Len(house.d_seat_counts) * Len(forecast_df) + (house.j - 1)
    /\ house.d_seats + house.r_seats = house.j - 1
    /\ house.result # None =>
           /\ Len(house.result[1].d_seats) = n_simulations
           /\ Len(house.result[1].r_seats) = n_simulations
           /\ house.draws = n_simulations * Len(forecast_df)

DrawCountsBySign ==
    house'.draws = house.draws + 1 =>
        IF house'.simulated_margin > 0
        THEN house'.d_seats = house.d_seats + 1 /\ house'.r_seats = house.r_seats
        ELSE house'.r_seats = house.r_seats + 1 /\ house'.d_seats = house.d_seats

C9_ChamberTrials == [](HouseCounts) /\ [][DrawCountsBySign]_vars

C9_Witness ==
    /\ house.result # None
    /\ Len(forecast_df) = MaxDistricts
    /\ n_simulations = MaxSims
    /\ \E k \in 1..n_simulations :
           house.d_seat_counts[k] >= 1 /\ house.r_seat_counts[k] >= 1

\* C10: in simulate_race a trial counts for D exactly when its simulated margin
\* is > 0 and for R otherwise (an exact 0 counts for R), so d_wins + r_wins is
\* the number of trials run, n_simulations when the loop ends.
C10_RaceWinCounts ==
    pc = "simulate_race" =>
        /\ d_wins = Cardinality({t \in 1..Len(margins) : margins[t] > 0})
        /\ r_wins = Cardinality({t \in 1..Len(margins) : margins[t] <= 0})
        /\ d_wins + r_wins = Len(margins)
        /\ Len(margins) <= n_simulations

C10_Witness ==
    /\ pc = "simulate_race"
    /\ Len(margins) = n_simulations
    /\ n_simulations = MaxSims
    /\ d_wins >= 1
    /\ \E t \in 1..Len(margins) : margins[t] = 0

(***************************************************************************)
(* C11: for every positive trial count the two reported win probabilities, *)
(* each rounded to one decimal place, lie in 0..100 and sum to exactly     *)
(* 100.0 - in what simulate_race returns and in every row of the table.    *)
(***************************************************************************)
WinPctsSumTo100(r) ==
    /\ r.d_win_pct \in 0..1000
    /\ r.r_win_pct \in 0..1000
    /\ r.d_win_pct + r.r_win_pct = 1000

C11_WinPctsSumTo100 ==
    /\ Returned("simulate_race") => WinPctsSumTo100(call.ret[1])
    /\ \A i \in 1..Len(forecasts) : WinPctsSumTo100(forecasts[i])

(***************************************************************************)
(* C12: a call of the race simulator is independently reproducible.  It    *)
(* reads no state written by a simulation call for another district or by  *)
(* the chamber simulation: when a call starts, the generator it is about   *)
(* to draw from is in the state the process started with.  And it leaves   *)
(* no process-wide state changed that a later call reads: no trial of the  *)
(* race simulator changes the state of the shared generator.               *)
(***************************************************************************)
RaceCallStarts == pc = "simulate_race" /\ margins = <<>>

C12_RaceSimulatorSharesNoState ==
    /\ [](RaceCallStarts => rng = 0)
    /\ [][SimulateRaceTrial => rng' = rng]_vars

(***************************************************************************)
(* C13: forecast_district(lean, perf, env) is intercept + lean_weight *    *)
(* lean + incumbent_weight * perf + environment_weight * env for the fixed *)
(* coefficients; changing env by d with lean and perf held fixed changes   *)
(* the result by exactly environment_weight * d (and likewise for lean and *)
(* perf); the coefficients are never modified during a run, and every row  *)
(* of the table carries the value of the formula, rounded to 2 decimals.   *)
(* Margins are in 1e-5 point, arguments in tenths, weights in 1e-4.        *)
(***************************************************************************)
ArgumentDeltas == {-13, -1, 1, 13, 50}

LinearModel(lean, perf, env) ==
    10 * MODEL_COEFFICIENTS.intercept
        + MODEL_COEFFICIENTS.pvi * lean
        + MODEL_COEFFICIENTS.war * perf
        + MODEL_COEFFICIENTS.generic_ballot * env

RowMargin(row) == LinearModel(row.pvi_numeric, row.war, row.generic_ballot)

C14_WinnerBySignOfMargin ==
    /\ pc = "simulate_race" =>
           /\ local.pred_margin = LinearModel(local.pvi, local.war, generic_ballot)
           /\ local.pred_winner = (IF local.pred_margin > 0 THEN "D" ELSE "R")
    /\ \A i \in 1..Len(forecasts) :
           /\ RowMargin(forecasts[i]) > 0 => forecasts[i].predicted_winner = "D"
           /\ RowMargin(forecasts[i]) <= 0 => forecasts[i].predicted_winner = "R"

\* A row whose predicted margin is exactly zero, called for R.
C14_Witness ==
    \E i \in 1..Len(forecasts) :
        /\ RowMargin(forecasts[i]) = 0
        /\ forecasts[i].predicted_winner = "R"

(***************************************************************************)
(* C15: the performance value used in the model and reported in the row is *)
(* 0.0 whenever the district is an open seat (listed in the retirement     *)
(* table), whatever the performance table holds for it, and 0.0 whenever   *)
(* the table has no value of 2024 for the district; otherwise it is the    *)
(* district's value of 2024 in the table.  And the run does not fail: no   *)
(* exception ends a run while or after a district is forecast.             *)
(***************************************************************************)
WarValues2024(district) ==
    {WarFile[i].Sortable : i \in {k \in 1..Len(WarFile) :
                                     /\ WarFile[k].Geography = district
                                     /\ WarFile[k].Year = 2024}}

ExpectedWar(district) ==
    IF district \in DOMAIN RETIREMENTS_2026 \/ WarValues2024(district) = {}
    THEN {0}
    ELSE WarValues2024(district)

OutputRows ==
    {forecasts[i] : i \in 1..Len(forecasts)} \cup {forecast_df[i] : i \in 1..Len(forecast_df)}

C16_FlipIffWinnerDiffers ==
    /\ \A row \in OutputRows :
           /\ row.incumbent_party \in {"D", "R"}
           /\ row.potential_flip <=> row.predicted_winner # row.incumbent_party
    /\ \A i \in 1..Len(forecasts) : forecasts[i].incumbent_party = pvi_df[i].Party

\* A table returned with a seat that is held (GA-06, R, called for R) and a
\* seat that flips (GA-07, D, called for R).
C16_Witness ==
    /\ Len(forecast_df) = 2
    /\ \E i, j \in 1..2 :
           /\ forecast_df[i].district_id = "GA-06"
           /\ forecast_df[i].incumbent_party = "R"
           /\ forecast_df[i].predicted_winner = "R"
           /\ ~forecast_df[i].potential_flip
           /\ forecast_df[j].district_id = "GA-07"
           /\ forecast_df[j].incumbent_party = "D"
           /\ forecast_df[j].predicted_winner = "R"
           /\ forecast_df[j].potential_flip

(***************************************************************************)
(* C17: the table returned by run_forecast holds the rows that were built, *)
(* ordered by ascending absolute predicted margin: for every two           *)
(* consecutive rows, |predicted_margin| of the earlier row is <= that of   *)
(* the later row.                                                          *)
(***************************************************************************)
RunForecastReturned == pc \in {"simulate_all_races", "print_summary"}

C17_TableOrderedByAbsMargin ==
    RunForecastReturned =>
        /\ \A i \in 1..(Len(forecast_df) - 1) :
               Abs(forecast_df[i].predicted_margin)
                   <= Abs(forecast_df[i + 1].predicted_margin)
        /\ Len(forecast_df) = Len(forecasts)
        /\ \A row \in OutputRows :
               Occurrences(forecast_df, row) = Occurrences(forecasts, row)

\* The safe seat built first (margin 19.65) is returned after the tied
\* district built second (margin 0.00).
C17_Witness ==
    /\ RunForecastReturned
    /\ Len(forecasts) = 2
    /\ forecasts[1].district_id = "TX-33"
    /\ forecast_df[1].district_id = "OH-09"
    /\ forecast_df[2].district_id = "TX-33"
    /\ Abs(forecast_df[1].predicted_margin) < Abs(forecast_df[2].predicted_margin)

(***************************************************************************)
(* C18: the most-competitive view of the summary consists of the K = 25    *)
(* rows of the table (all its rows when there are fewer) with the smallest *)
(* |d_win_pct - 50|, listed in ascending order of that distance: no row    *)
(* outside the view is strictly closer to 50 than a row inside it.         *)
(***************************************************************************)
SummaryTable == IF call.fn = "print_summary" THEN call.forecast_df ELSE forecast_df

DistanceFrom50(row) == IF row.d_win_pct >= 500 THEN row.d_win_pct - 500
                                               ELSE 500 - row.d_win_pct

C18_MostCompetitiveView ==
    competitive # None =>
        LET view   == competitive[1]
            inside == {view[r].position : r \in 1..Len(view)}
        IN  /\ Len(view) = (IF Len(SummaryTable) < 25 THEN Len(SummaryTable) ELSE 25)
            /\ Cardinality(inside) = Len(view)
            /\ \A r \in 1..Len(view) :
                   /\ view[r].position \in 1..Len(SummaryTable)
                   /\ view[r].district_id = SummaryTable[view[r].position].district_id
                   /\ view[r].d_win_pct = SummaryTable[view[r].position].d_win_pct
            /\ \A r \in 1..(Len(view) - 1) :
                   DistanceFrom50(view[r]) <= DistanceFrom50(view[r + 1])
            /\ \A i \in (1..Len(SummaryTable)) \ inside : \A j \in inside :
                   DistanceFrom50(SummaryTable[i]) >= DistanceFrom50(SummaryTable[j])

\* A table of 27 rows of which 25 are shown, one of the two left out being
\* strictly farther from 50 than the last one shown.
C18_Witness ==
    /\ competitive # None
    /\ Len(SummaryTable) = 27
    /\ Len(competitive[1]) = 25
    /\ \E i \in 1..27 :
           /\ \A r \in 1..25 : competitive[1][r].position # i
           /\ DistanceFrom50(SummaryTable[i]) > DistanceFrom50(competitive[1][25])
    /\ DistanceFrom50(competitive[1][1]) < DistanceFrom50(competitive[1][25])

(***************************************************************************)
(* C19: the chamber summary's d_min, d_max, d_median and d_mean are the    *)
(* minimum, maximum, median and arithmetic mean of the N per-trial D seat  *)
(* counts, so that 0 <= d_min <= d_median <= d_max <= number of districts  *)
(* and d_min <= d_mean <= d_max, and d_mean + r_mean equals the number of  *)
(* districts.  Means and the median are quotients num / den.               *)
(***************************************************************************)
Leq(a, b) == a.num * b.den <= b.num * a.den

Whole(x) == Fraction(x, 1)

\* How many of the counts are below x, and how many are at most x.
Below(counts, x) == Cardinality({i \in 1..Len(counts) : counts[i] < x})

AtMost(counts, x) == Cardinality({i \in 1..Len(counts) : counts[i] <= x})

\* x is the k-th smallest of the counts.
IsKthSmallest(counts, k, x) ==
    /\ \E i \in 1..Len(counts) : counts[i] = x
    /\ Below(counts, x) < k
    /\ k <= AtMost(counts, x)

C19_ChamberSummaryStatistics ==
    house.result # None =>
        LET res       == house.result[1]
            counts    == house.d_seat_counts
            n         == Len(counts)
            districts == Len(forecast_df)
        IN  /\ n = n_simulations
            /\ IsKthSmallest(counts, 1, res.d_min)
            /\ IsKthSmallest(counts, n, res.d_max)
            /\ \E lo, hi \in 0..districts :
                   /\ IsKthSmallest(counts, (n + 1) \div 2, lo)
                   /\ IsKthSmallest(counts, (n \div 2) + 1, hi)
                   /\ res.d_median.num * 2 = (lo + hi) * res.d_median.den
            /\ res.d_mean.num * n = SeqSum(counts) * res.d_mean.den
            /\ 0 <= res.d_min
            /\ Leq(Whole(res.d_min), res.d_median)
            /\ Leq(res.d_median, Whole(res.d_max))
            /\ res.d_max <= districts
            /\ Leq(Whole(res.d_min), res.d_mean)
            /\ Leq(res.d_mean, Whole(res.d_max))
            /\ res.d_mean.num * res.r_mean.den + res.r_mean.num * res.d_mean.den
                   = districts * res.d_mean.den * res.r_mean.den

\* Two trials of a two-district chamber with 0 and 1 D seats: minimum 0,
\* median and mean 0.5, maximum 1, and an R mean of 1.5.
C19_Witness ==
    /\ house.result # None
    /\ Len(forecast_df) = 2
    /\ house.d_seat_counts \in {<<0, 1>>, <<1, 0>>}
    /\ house.result[1].d_min = 0
    /\ house.result[1].d_max = 1
    /\ house.result[1].d_median = Fraction(1, 2)
    /\ house.result[1].d_mean = Fraction(1, 2)
    /\ house.result[1].r_mean = Fraction(3, 2)

(***************************************************************************)
(* C20: a non-numeric environment value or trial count supplied on the     *)
(* command-line surface, in the positional form or at a prompt of the      *)
(* interactive form, is fatal: the step of main() that reads it ends the   *)
(* run with an error, before any data file is loaded and before any        *)
(* forecast or simulation step runs.                                       *)
(***************************************************************************)
NonNumericSupplied ==
    \/ \E i \in 4..Len(command.argv) : command.argv[i] \in NonNumericTexts
    \/ Len(command.argv) < 4 /\ \E i \in 1..Len(command.typed) :
                                    command.typed[i] \in NonNumericTexts

C20_NonNumericArgumentIsFatal ==
    [][(pc = "main" /\ NonNumericSupplied) =>
           /\ pc' = "raised"
           /\ raised' # None
           /\ war_dict' = NoDict /\ forecasts' = <<>> /\ rng' = 0]_vars

(***************************************************************************)
(* C21: get_file_path never returns a path that does not exist.  Each time *)
(* the operator types a path that does not exist, the error is reported    *)
(* and the function stays in its loop, to prompt again, without ending;    *)
(* it returns the typed path as soon as that path exists, and it returns   *)
(* the file found by the search, which exists, when the operator accepts   *)
(* it.  The path typed on a line is the line without the blanks and then   *)
(* the quotation marks around it.                                          *)
(***************************************************************************)
InFilePath == pc = "call" /\ call.fn = "get_file_path"

Wrapping(line, chars, lo, hi) ==
    LET inner == {i \in lo..hi : line[i] \notin chars}
    IN  IF inner = {} THEN [lo |-> hi + 1, hi |-> hi]
        ELSE [lo |-> CHOOSE i \in inner : \A j \in inner : i <= j,
              hi |-> CHOOSE i \in inner : \A j \in inner : j <= i]

TypedPath(line) ==
    LET blanks == Wrapping(line, {" "}, 1, Len(line))
        double == Wrapping(line, {Quote}, blanks.lo, blanks.hi)
        single == Wrapping(line, {Apostrophe}, double.lo, double.hi)
    IN  SubSeq(line, single.lo, single.hi)

FilePathTurn ==
    InFilePath /\ call.at = "loop" /\ call.typed # <<>> =>
        LET path == TypedPath(Head(call.typed))
        IN  IF path \in call.files
            THEN pc' = "returned" /\ call'.ret = Some(path)
            ELSE /\ pc' = "call"
                 /\ raised' = None
                 /\ call'.at = "loop"
                 /\ call'.ret = None
                 /\ call'.errors = call.errors + 1

FilePathOffer ==
    InFilePath /\ call.at = "find_file" /\ pc' = "returned" =>
        /\ call'.ret # None
        /\ call'.ret[1] \in call.files

C21_FilePathExists ==
    /\ [](call.fn = "get_file_path" /\ pc = "returned" =>
              call.ret # None /\ call.ret[1] \in call.files)
    /\ [][FilePathTurn /\ FilePathOffer]_vars

\* The operator declined the file that was found, typed a path that does not
\* exist and was told so, and then typed one that exists, which was returned.
C21_Witness ==
    /\ call.fn = "get_file_path"
    /\ pc = "returned"
    /\ call.prompts = 3
    /\ call.errors = 1
    /\ call.ret = Some(<<"b">>)
    /\ find_file(call.default_filename, call.files) # None

(***************************************************************************)
(* C22: the updater ends with a status other than 0 only if the forecast   *)
(* process it started returned a code other than 0.  When the value of the *)
(* national environment cannot be fetched or cannot be parsed, the updater *)
(* does not end there: it takes 0.0 and starts the forecast with it.  When *)
(* the forecast returns 0 the updater completes, with status 0.            *)
(***************************************************************************)
InUpdater == call.fn = "update_forecast"

ScrapeFailureMessages ==
    {"Error fetching data", "Unexpected error", "Warning: Could not parse Generic Ballot"}

C22_UpdaterExitStatus ==
    InUpdater =>
        /\ pc # "raised"
        /\ (/\ pc \in {"update_run_forecast", "update_result", "exited"}
            /\ \/ call.response.kind = "RequestException"
               \/ call.log[1] \in ScrapeFailureMessages)
               => call.generic_ballot = Some(0)
        /\ pc = "exited" =>
               /\ call.cmd # None
               /\ call.cmd[1][5] = FloatStr(call.generic_ballot[1])
               /\ call.returncode # None
               /\ call.exit_code # None
               /\ call.exit_code[1] # 0 => call.returncode[1] # 0
               /\ call.returncode[1] = 0 =>
                      /\ call.exit_code[1] = 0
                      /\ call.log[Len(call.log)] = "Update complete!"

\* The page could not be fetched, the forecast was run with 0.0 and returned
\* 0, and the updater completed.
C22_Witness ==
    /\ InUpdater
    /\ pc = "exited"
    /\ call.response.kind = "RequestException"
    /\ call.cmd[1][5] = <<"0", ".", "0">>
    /\ call.returncode = Some(0)
    /\ call.exit_code = Some(0)

(***************************************************************************)
(* C23: in every output row predicted_winner agrees with the value in the  *)
(* row's predicted_margin column (the margin rounded to two decimals):     *)
(* the winner is 'D' exactly when that value is > 0, and 'R' otherwise.    *)
(***************************************************************************)
C23_WinnerAgreesWithReportedMargin ==
    \A row \in OutputRows :
        /\ row.predicted_winner \in {"D", "R"}
        /\ row.predicted_winner = "D" <=> row.predicted_margin > 0

(***************************************************************************)
(* C24: for every district, the margin that simulate_all_races adds its    *)
(* noise to is the margin that simulate_race, called from run_forecast,    *)
(* added its noise to: the unrounded value of the model formula.           *)
(***************************************************************************)
C24_SamePointEstimate ==
    /\ pc = "simulate_race" =>
           local.pred_margin = LinearModel(local.pvi, local.war, generic_ballot)
    /\ \A i \in 1..Len(forecast_df) :
           PredictedMargins(forecast_df)[i] = RowMargin(forecast_df[i])

(***************************************************************************)
(* C25: in every output row the party named in race_rating is the party of *)
(* predicted_winner: a rating that ends in " D" occurs only in rows whose  *)
(* predicted_winner is 'D', and a rating that ends in " R" only in rows    *)
(* whose predicted_winner is 'R'.                                          *)
(***************************************************************************)
RatingsEndingIn(party) ==
    {"Safe " \o party, "Likely " \o party, "Lean " \o party, "Tilt " \o party,
     "Toss-up " \o party}

C25_RatingPartyIsWinner ==
    \A row \in OutputRows :
        /\ row.race_rating \in RatingsEndingIn("D") => row.predicted_winner = "D"
        /\ row.race_rating \in RatingsEndingIn("R") => row.predicted_winner = "R"

(***************************************************************************)
(* C26: whatever the number of districts the forecast is run on, the GOP   *)
(* majority probability that the summary prints (100 - d_majority_pct) is  *)
(* the share of the chamber trials in which r_seats is at least the        *)
(* majority threshold (218): in every trial exactly one of the two parties *)
(* reaches the threshold; and the R seat count printed beside each         *)
(* percentile (435 - D seats) is the R seat count of the simulated         *)
(* chamber, the number of its districts less the D seats of the line.      *)
(***************************************************************************)
RMajorityTrials ==
    Cardinality({k \in 1..Len(house.r_seat_counts) : house.r_seat_counts[k] >= 218})

C26_GopMajorityAndPercentileSeats ==
    house.printed # None =>
        LET printed == house.printed[1]
        IN  /\ printed.majority.gop * n_simulations = 1000 * RMajorityTrials
            /\ \A k \in 1..Len(house.d_seat_counts) :
                   house.d_seat_counts[k] >= 218 <=> ~(house.r_seat_counts[k] >= 218)
            /\ \A k \in 1..Len(printed.percentiles) :
                   printed.percentiles[k].r = Len(forecast_df) - printed.percentiles[k].d

====
